---------------------------- MODULE Spec2Model ----------------------------
(***************************************************************************)
(* The route optimization engine of bus-route-optimizer: one run of        *)
(* optimizeRoutes as a state machine.  The repository holds two versions   *)
(* of the engine; impl = "five" is src/unnamed/part_000 (five strategies,  *)
(* propagation inlined in optimizeRoutes) and impl = "three" is            *)
(* src/src/utils/routeOptimizer.ts (three strategies, propagation in       *)
(* calculateRouteSegments).                                                *)
(*                                                                         *)
(* A stop is [address, numKids]; the address is the stop's position in the *)
(* input list, so addresses are distinct.  The travel oracle               *)
(* (getTravelEstimate) is an external service: every query either fails or *)
(* answers a duration drawn from Durations, or the duration the run's       *)
(* traffic table pins for that pair of places.  Durations are whole        *)
(* minutes.  Distances are read by the distance strategies only; the       *)
(* totals they are summed into are read by no property here and are left   *)
(* out of the run.                                                         *)
(***************************************************************************)
EXTENDS Integers, Sequences, FiniteSets, TLC

VARIABLES
    impl,               \* which version of the engine runs
    stops,              \* input: the stops
    busCapacities,      \* input: one capacity per bus
    school,             \* input: [arrivalTime, departureTime]
    options,            \* input: OptimizationOptions
    oracle,             \* environment: the durations the traffic pins, by <<from, to>>;
                        \* a query for any other pair answers any of Durations
    roads,              \* environment: the distances the map pins, by <<from, to>>;
                        \* a query for any other pair answers any of Distances
    pc,                 \* stage of the run
    error,              \* what the run threw, "" when nothing
    result,             \* the OptimizationResult, <<>> until returned
    travelEstimates,    \* the strategy's stop-to-school durations, by address,
                        \* kept until the route loop starts
    sortedStops,        \* the sequenced stop list
    strategyRun,        \* history: the strategy functions called, in call order
    sequence,           \* 2-opt: the seed sequence
    calculateMetric,    \* 2-opt: the cost closure, as the data it closes over
    bestSequence,       \* 2-opt
    bestMetric,         \* 2-opt
    improved,           \* 2-opt
    iterations,         \* 2-opt: passes started so far
    stopGroups,         \* per bus, the stops assigned to it
    index,              \* forEach position in sortedStops (0-based)
    noRoom,             \* history: addresses that no bus had room for when processed
    busIndex,           \* the bus whose route is being built (1-based), 0 outside the loop
    pos,                \* the stop of the current leg whose query comes next
    segments,           \* morning segments, in the order pushed
    estimatedTimes,     \* morning pickup times, by address
    currentTime,        \* running clock of the leg
    maxRideTime,
    minRideTime,
    optimizedStops,     \* part_000: the stops in the order the morning loop pushed them
    returnStops,        \* return visiting order
    returnSegments,
    returnTimes,
    routes,             \* the routes pushed so far
    globalMaxRideTime,
    globalMinRideTime,
    oracleCalls,        \* history: oracle queries issued so far
    oracleFailed,       \* history: some oracle query has failed
    callsAtFailure,     \* history: oracleCalls when the failing query's await threw
    morningDepartures,  \* history: by stop address, the departure instant of the
                        \* answered morning query for the leg from that stop
    awaiting,           \* the Promise.all being awaited, "" when none
    settled,            \* the responses of that Promise.all's requests, in the order
                        \* they arrived, each with the position of its request
    mounted,            \* page: the component has mounted and its effect has run
    jsonInput,          \* page: the text of the input area, by what parsing it gives
    isLoading,          \* page: the isLoading state
    pageError,          \* page: the error state, Null when none
    hasData,            \* page: stops and busCapacities are both non-empty
    optimizationResult, \* page: Null, or the result of the last finished optimize
    requests,           \* page: the calls of handleJsonSubmit and handleOptimize that
                        \* reached an await, each with what it awaits
    googleMapsPromise,  \* loader: the module's googleMapsPromise, Null or a promise
    promises,           \* loader: the state of each promise created, by creation
    scripts,            \* loader: the script elements appended to the document
    loadCalls           \* history: what each call of loadGoogleMaps returned

vars == <<impl, stops, busCapacities, school, options, oracle, roads, pc, error,
          result,
          travelEstimates, sortedStops, strategyRun, sequence, calculateMetric,
          bestSequence, bestMetric, improved, iterations,
          stopGroups, index, noRoom, busIndex, pos,
          segments, estimatedTimes, currentTime, maxRideTime, minRideTime,
          optimizedStops, returnStops, returnSegments, returnTimes, routes,
          globalMaxRideTime, globalMinRideTime, oracleCalls, oracleFailed,
          callsAtFailure, morningDepartures, awaiting, settled,
          mounted, jsonInput, isLoading, pageError, hasData, optimizationResult,
          requests, googleMapsPromise, promises, scripts, loadCalls>>

-----------------------------------------------------------------------------
(* Bounds of the model. *)

MaxStops == 2
MaxBuses == 2
KidsChoices == {1, 2}
CapacityChoices == {1, 2}
Durations == {0, 1}
Distances == {0, 1}
StopDurations == {0, 1}

\* Number.POSITIVE_INFINITY, the start value of every running minimum: a
\* number above every clock time of the model.
Infinity == 100000

\* MAX_ITERATIONS, the 2-opt loop's cap on passes.
MAX_ITERATIONS == 100

\* school.arrivalTime and school.departureTime as "HH:MM", split at the colon.
ArrivalTimeStr == <<8, 0>>
DepartureTimeStr == <<15, 0>>

-----------------------------------------------------------------------------
(* Helpers: sequences and maps. *)

Min(S) == CHOOSE x \in S : \A y \in S : x <= y
Max(S) == CHOOSE x \in S : \A y \in S : x >= y
MathMax(a, b) == IF a >= b THEN a ELSE b
MathMin(a, b) == IF a <= b THEN a ELSE b

Range(s) == {s[k] : k \in DOMAIN s}

\* Faulty variant, for comparison: the array is left as it is.
NotReversed(s) == s

\* Array.prototype.reverse
Reverse(s) == [k \in 1..Len(s) |-> s[Len(s) + 1 - k]]

\* obj[key] = value on a plain object: the key is added or overwritten.
Put(obj, key, value) == (key :> value) @@ obj

\* An optional field: <<>> when undefined.
Undefined == <<>>
Some(v) == <<v>>

RECURSIVE SumKids(_)
SumKids(s) == IF s = <<>> THEN 0 ELSE Head(s).numKids + SumKids(Tail(s))

\* Array.prototype.sort with comparator (a, b) => key[a] - key[b]: ascending by
\* key, stable (elements with equal keys keep their order).
RECURSIVE InsertByKey(_, _, _)
InsertByKey(x, s, key) ==
    IF s = <<>> THEN <<x>>
    ELSE IF key[Head(s).address] > key[x.address] THEN <<x>> \o s
    ELSE <<Head(s)>> \o InsertByKey(x, Tail(s), key)

RECURSIVE SortAscending(_, _)
SortAscending(s, key) ==
    IF s = <<>> THEN <<>>
    ELSE InsertByKey(s[Len(s)], SortAscending(SubSeq(s, 1, Len(s) - 1), key), key)

\* The same with comparator (a, b) => key[b] - key[a]: descending, stable.
SortDescending(s, key) ==
    SortAscending(s, [a \in DOMAIN key |-> 0 - key[a]])

-----------------------------------------------------------------------------
(* Pure functions of the engine. *)

parseTime(timeStr) == timeStr[1] * 60 + timeStr[2]

\* date.setHours(Math.floor(timeMinutes / 60)); date.setMinutes(timeMinutes % 60):
\* the instant of today a query is issued for.
getDateWithTime(timeMinutes) ==
    [hours |-> timeMinutes \div 60, minutes |-> timeMinutes % 60]

schoolArrivalTime == parseTime(school.arrivalTime)

schoolDepartureTime ==
    IF school.departureTime # Undefined
    THEN parseTime(school.departureTime[1])
    ELSE schoolArrivalTime + 420

\* options.stopDuration || 0
StopDuration == options.stopDuration

\* Faulty variant, for comparison: sorted ascending and then reversed, which turns ties around.
optimizeByDistanceFromSchoolReversed(stopList, estimates) ==
    Reverse(SortAscending(stopList, estimates))

optimizeByDistanceFromSchool(stopList, estimates) ==
    SortDescending(stopList, estimates)

\* Faulty variant, for comparison: ride times are not weighted by numKids.
RECURSIVE calculateStudentMinutesUnweighted(_, _, _)
calculateStudentMinutesUnweighted(stopList, times, arrival) ==
    IF stopList = <<>> THEN 0
    ELSE (arrival - times[Head(stopList).address])
         + calculateStudentMinutesUnweighted(Tail(stopList), times, arrival)

RECURSIVE calculateStudentMinutes(_, _, _)
calculateStudentMinutes(stopList, times, arrival) ==
    IF stopList = <<>> THEN 0
    ELSE (arrival - times[Head(stopList).address]) * Head(stopList).numKids
         + calculateStudentMinutes(Tail(stopList), times, arrival)


\* Faulty variant, for comparison: every stop is first offered to bus 0.
PreferredBusFirst(idx, numBuses) == 1

\* index % numBuses, as a 1-based bus
PreferredBus(idx, numBuses) == (idx % numBuses) + 1

\* Faulty variant, for comparison: the kids already on the bus are not counted.
HasRoomWhenEmpty(groups, capacities, bus, stop) ==
    stop.numKids <= capacities[bus]

\* totalKidsOnBus + stop.numKids <= currentCapacity
HasRoom(groups, capacities, bus, stop) ==
    SumKids(groups[bus]) + stop.numKids <= capacities[bus]

\* Faulty variant, for comparison: the scan starts after the preferred bus instead of at bus 0.
AlternateBusAfter(groups, capacities, bus, stop) ==
    LET candidates == {i \in 1..Len(capacities) :
                          i > bus /\ HasRoom(groups, capacities, i, stop)}
    IN  IF candidates = {} THEN 0 ELSE Min(candidates)

\* The else branch: the first other bus, in index order, with room; 0 when the
\* loop ends without a push.
AlternateBus(groups, capacities, bus, stop) ==
    LET candidates == {i \in 1..Len(capacities) :
                          i # bus /\ HasRoom(groups, capacities, i, stop)}
    IN  IF candidates = {} THEN 0 ELSE Min(candidates)

\* The bus one forEach step pushes the stop to, 0 when it pushes to none.
TargetBus(groups, capacities, idx, stop) ==
    LET bus == PreferredBus(idx, Len(capacities))
    IN  IF HasRoom(groups, capacities, bus, stop) THEN bus
        ELSE AlternateBus(groups, capacities, bus, stop)

\* Faulty variant, for comparison: the loop looks for a bus with a stop from
\* the first bus on again.
NextBusFromStart(groups, bus) ==
    LET rest == {b \in 1..Len(groups) : groups[b] # <<>> /\ b # bus}
    IN  IF rest = {} THEN 0 ELSE Min(rest)

\* for (busIndex ...) { if (busStops.length === 0) continue; ... }: the next bus
\* after `bus` with a stop, 0 when the loop is over.
NextBus(groups, bus) ==
    LET rest == {b \in (bus + 1)..Len(groups) : groups[b] # <<>>}
    IN  IF rest = {} THEN 0 ELSE Min(rest)

\* One leg of a route: from, to and the oracle's duration.
Segment(from, to, duration) == [from |-> from, to |-> to, duration |-> duration]

\* Faulty variant, for comparison: every segment ends at the school.
DestinationAlwaysSchool(stopList, k) == school.name

\* Name of the destination of the stop at position k: the next stop, or the school.
DestinationName(stopList, k) ==
    IF k < Len(stopList) THEN stopList[k + 1].address ELSE school.name

\* Faulty variant, for comparison: the dwell time is left out of the pickup times.
RECURSIVE MorningTimesWithoutDwell(_, _, _, _, _)
MorningTimesWithoutDwell(stopList, segs, k, arrival, dwell) ==
    IF k > Len(stopList)
    THEN [time |-> arrival, estimatedTimes |-> <<>>,
          maxRideTime |-> 0, minRideTime |-> Infinity]
    ELSE LET later == MorningTimesWithoutDwell(stopList, segs, k + 1, arrival, dwell)
             time == later.time - segs[k].duration
             rideTime == arrival - time
         IN  [time |-> time,
              estimatedTimes |-> Put(later.estimatedTimes, stopList[k].address, time),
              maxRideTime |-> MathMax(later.maxRideTime, rideTime),
              minRideTime |-> MathMin(later.minRideTime, rideTime)]

\* calculateRouteSegments, morning: pickup times backwards from the school
\* arrival, after the stops at positions k+1.. have been timed.
RECURSIVE MorningTimes(_, _, _, _, _)
MorningTimes(stopList, segs, k, arrival, dwell) ==
    IF k > Len(stopList)
    THEN [time |-> arrival, estimatedTimes |-> <<>>,
          maxRideTime |-> 0, minRideTime |-> Infinity]
    ELSE LET later == MorningTimes(stopList, segs, k + 1, arrival, dwell)
             time == later.time - (segs[k].duration + dwell)
             rideTime == arrival - time
         IN  [time |-> time,
              estimatedTimes |-> Put(later.estimatedTimes, stopList[k].address, time),
              maxRideTime |-> MathMax(later.maxRideTime, rideTime),
              minRideTime |-> MathMin(later.minRideTime, rideTime)]

\* Faulty variant, for comparison: the dwell time is left out of the drop-off times.
RECURSIVE ReturnTimesWithoutDwell(_, _, _, _, _)
ReturnTimesWithoutDwell(stopList, segs, k, departure, dwell) ==
    IF k = 0 THEN [time |-> departure, estimatedTimes |-> <<>>]
    ELSE LET before == ReturnTimesWithoutDwell(stopList, segs, k - 1, departure, dwell)
             time == before.time + segs[k].duration
         IN  [time |-> time,
              estimatedTimes |-> Put(before.estimatedTimes, stopList[k].address, time)]

\* Drop-off times forward from the school departure: the times of the first k
\* stops, each the one before plus (segment duration + dwell).
RECURSIVE ReturnTimes(_, _, _, _, _)
ReturnTimes(stopList, segs, k, departure, dwell) ==
    IF k = 0 THEN [time |-> departure, estimatedTimes |-> <<>>]
    ELSE LET before == ReturnTimes(stopList, segs, k - 1, departure, dwell)
             time == before.time + (segs[k].duration + dwell)
         IN  [time |-> time,
              estimatedTimes |-> Put(before.estimatedTimes, stopList[k].address, time)]

\* Object.values(times)
Values(times) == {times[a] : a \in DOMAIN times}

\* Faulty variant, for comparison: the return leg is left out of the total.
TotalRideTimeMorningOnly(times, backTimes) ==
    schoolArrivalTime - Min(Values(times))

\* The totalRideTime field of a route.
TotalRideTime(times, backTimes) ==
    IF options.includeReturn
    THEN (schoolArrivalTime - Min(Values(times)))
         + (Max(Values(backTimes)) - schoolDepartureTime)
    ELSE schoolArrivalTime - Min(Values(times))

\* Faulty variant, for comparison: the return fields are always filled in.
RouteWithReturnFields(bus, busStops, times, segs, backSegs, backTimes, maxRide, minRide) ==
    [id |-> bus,
     busCapacity |-> busCapacities[bus],
     currentKids |-> SumKids(busStops),
     stops |-> busStops,
     estimatedTimes |-> times,
     segments |-> segs,
     returnSegments |-> Some(backSegs),
     returnTimes |-> Some(backTimes),
     maxRideTime |-> maxRide,
     minRideTime |-> minRide,
     rideTimeEquity |-> maxRide - minRide,
     totalStudentMinutes |-> calculateStudentMinutes(busStops, times, schoolArrivalTime),
     totalRideTime |-> TotalRideTime(times, backTimes)]

\* The object pushed to routes.
Route(bus, busStops, times, segs, backSegs, backTimes, maxRide, minRide) ==
    [id |-> bus,
     busCapacity |-> busCapacities[bus],
     currentKids |-> SumKids(busStops),
     stops |-> busStops,
     estimatedTimes |-> times,
     segments |-> segs,
     returnSegments |-> IF options.includeReturn THEN Some(backSegs) ELSE Undefined,
     returnTimes |-> IF options.includeReturn THEN Some(backTimes) ELSE Undefined,
     maxRideTime |-> maxRide,
     minRideTime |-> minRide,
     rideTimeEquity |-> maxRide - minRide,
     totalStudentMinutes |-> calculateStudentMinutes(busStops, times, schoolArrivalTime),
     totalRideTime |-> TotalRideTime(times, backTimes)]

RECURSIVE SumRideTimes(_)
SumRideTimes(rs) ==
    IF rs = <<>> THEN 0
    ELSE Head(rs).maxRideTime + Head(rs).minRideTime + SumRideTimes(Tail(rs))

\* The OptimizationResult.  averageRideTime is the quotient sum / count2, kept
\* as its two operands (0 / 0 when no route was pushed).
Result(rs, globalMax, globalMin) ==
    [routes |-> rs,
     maxRideTime |-> globalMax,
     minRideTime |-> globalMin,
     rideTimeEquity |-> globalMax - globalMin,
     averageRideTime |-> [sum |-> SumRideTimes(rs), count2 |-> 2 * Len(rs)]]

\* Math.sqrt(Math.pow(dlat, 2) + Math.pow(dlng, 2)), squared: the square root
\* does not change the comparator's sign.
SquaredDistance(a, b) ==
    (a.lat - b.lat) * (a.lat - b.lat) + (a.lng - b.lng) * (a.lng - b.lng)

\* The return visiting order of one bus: the policy chosen by the options,
\* applied to `base`.
ReturnOrder(base) ==
    LET addresses == {base[k].address : k \in DOMAIN base}
        stopAt(a) == CHOOSE s \in Range(base) : s.address = a
    IN  IF options.reverseReturnOrder THEN Reverse(base)
        ELSE IF options.prioritizeDirection
        THEN SortDescending(base, [a \in addresses |-> stopAt(a).location.lat])
        ELSE SortAscending(base, [a \in addresses |->
                 SquaredDistance(stopAt(a).location, school.location)])

-----------------------------------------------------------------------------
(* The sequencing strategies of part_000 that build the order greedily. *)

\* The first position of a least value of row (a function on 0..m-1): the scan
\* keeps the first distance that is strictly below every one before it.
FirstMinIndex(row) ==
    CHOOSE i \in DOMAIN row :
        \A j \in DOMAIN row : row[i] <= row[j] /\ (j < i => row[j] > row[i])

\* Faulty variant, for comparison: the last element is removed, whatever k is.
RemoveLast(s, k) == SubSeq(s, 1, Len(s) - 1)

\* unvisited.splice(nextStopIndex, 1), with k the 1-based position
RemoveAt(s, k) == SubSeq(s, 1, k - 1) \o SubSeq(s, k + 1, Len(s))

\* The while loop of optimizeByDistanceMatrix: the row read is the number of
\* stops placed so far, the columns are positions in unvisited.
RECURSIVE GreedyByMatrix(_, _, _)
GreedyByMatrix(optimized, unvisited, matrix) ==
    IF unvisited = <<>> THEN optimized
    ELSE LET row == matrix[Len(optimized)]
             nextStopIndex ==
                 FirstMinIndex([i \in 0..(Len(unvisited) - 1) |-> row[i]])
         IN  GreedyByMatrix(Append(optimized, unvisited[nextStopIndex + 1]),
                            RemoveAt(unvisited, nextStopIndex + 1), matrix)

\* Faulty variant, for comparison: the first stop is chosen in the row of the
\* start point, each later one in the row of the count of stops placed before
\* it.
optimizeFromStartRow(stopList, matrix) ==
    LET n == Len(stopList)
    IN  GreedyByMatrix(<<>>, stopList,
                       [i \in 0..n |-> matrix[IF i = 0 THEN n ELSE i - 1]])

optimizeByDistanceMatrix(stopList, matrix) ==
    GreedyByMatrix(<<>>, stopList, matrix)

\* startLocation ? startLocation.location : school.location, as the name of
\* the place
StartPoint ==
    IF options.customStartLocation # Undefined THEN options.customStartLocation[1]
    ELSE school.name

\* The distances getTravelEstimate may answer for the trip from -> to.
DistanceAnswers(from, to) ==
    IF <<from, to>> \in DOMAIN roads THEN {roads[<<from, to>>]} ELSE Distances

\* The distances answered to the queries <<from, to>> of a function queries,
\* one per query.
DistanceSeqs(queries) ==
    LET free == {k \in DOMAIN queries : queries[k] \notin DOMAIN roads}
    IN  {[k \in DOMAIN queries |-> IF k \in free THEN f[k] ELSE roads[queries[k]]] :
            f \in [free -> Distances]}

\* fromPoint and toPoint of the nested loops: index n is the start point, any
\* other index a stop of the input
MatrixPoint(stopList, i) ==
    IF i = Len(stopList) THEN StartPoint ELSE stopList[i + 1].address

\* The matrices the nested loops can fill for the stops: zero on the diagonal,
\* the oracle's distance everywhere else; row and column n are the start point.
Matrices(stopList) ==
    LET n == Len(stopList)
        offDiagonal == {p \in (0..n) \X (0..n) : p[1] # p[2]}
        queries == [p \in offDiagonal |->
                       <<MatrixPoint(stopList, p[1]), MatrixPoint(stopList, p[2])>>]
    IN  {[i \in 0..n |-> [j \in 0..n |-> IF i = j THEN 0 ELSE f[<<i, j>>]]] :
            f \in DistanceSeqs(queries)}

\* The while loop of optimizeByNearestNeighbor, over every answer the oracle
\* can give to each round's queries: the orders it can return.
RECURSIVE NearestNeighborOrders(_, _, _)
NearestNeighborOrders(optimized, unvisited, currentLocation) ==
    IF unvisited = <<>> THEN {optimized}
    ELSE UNION {LET nextStopIndex == FirstMinIndex(distances)
                    nextStop == unvisited[nextStopIndex + 1]
                IN  NearestNeighborOrders(Append(optimized, nextStop),
                                          RemoveAt(unvisited, nextStopIndex + 1),
                                          nextStop.address) :
                   distances \in DistanceSeqs(
                       [i \in 0..(Len(unvisited) - 1) |->
                           <<currentLocation, unvisited[i + 1].address>>])}

optimizeByNearestNeighbor(stopList) ==
    NearestNeighborOrders(<<>>, stopList, StartPoint)

-----------------------------------------------------------------------------
(* The 2-opt local search and the two strategies that use it. *)

\* travelTimes[`${i}-${j}`] summed along sequence from position i on; a
\* stop's address is its index in stops
RECURSIVE PathTime(_, _, _)
PathTime(seq, i, travelTimes) ==
    IF i >= Len(seq) THEN 0
    ELSE travelTimes[seq[i].address][seq[i + 1].address]
         + PathTime(seq, i + 1, travelTimes)

\* The outer loop of calculateWeightedRideTime from position i on: the
\* additionalTime of position i, which is the travel time to the next stop
\* plus the additionalTime of the next position, and the weighted times of
\* positions i and later, summed.
RECURSIVE WeightedRideTimeFrom(_, _, _, _)
WeightedRideTimeFrom(seq, i, schoolEstimates, travelTimes) ==
    IF i > Len(seq) THEN [additionalTime |-> 0, totalWeightedTime |-> 0]
    ELSE LET rest == WeightedRideTimeFrom(seq, i + 1, schoolEstimates, travelTimes)
             additionalTime ==
                 IF i = Len(seq) THEN 0
                 ELSE travelTimes[seq[i].address][seq[i + 1].address]
                      + rest.additionalTime
         IN  [additionalTime |-> additionalTime,
              totalWeightedTime |->
                  (schoolEstimates[seq[i].address] + additionalTime) * seq[i].numKids
                  + rest.totalWeightedTime]

calculateWeightedRideTime(seq, schoolEstimates, travelTimes) ==
    WeightedRideTimeFrom(seq, 1, schoolEstimates, travelTimes).totalWeightedTime

calculateTotalDistance(seq, schoolEstimates, distances) ==
    IF seq = <<>> THEN 0
    ELSE schoolEstimates[seq[1].address] + PathTime(seq, 1, distances)
         + schoolEstimates[seq[Len(seq)].address]

\* calculateMetric(seq): the closure applied to a sequence.
Metric(closure, seq) ==
    CASE closure.name = "calculateWeightedRideTime" ->
             calculateWeightedRideTime(seq, closure.schoolEstimates, closure.pairs)
      [] closure.name = "calculateTotalDistance" ->
             calculateTotalDistance(seq, closure.schoolEstimates, closure.pairs)
      [] OTHER -> closure.table[[k \in DOMAIN seq |-> seq[k].address]]

\* newSequence.splice(i, subarray.length, ...subarray.reverse()), 1-based i..j
ReverseRange(seq, i, j) ==
    [k \in DOMAIN seq |-> IF i <= k /\ k <= j THEN seq[i + j - k] ELSE seq[k]]

\* Faulty variant, for comparison: any change of cost is adopted.
Differs(newMetric, best) == newMetric # best

\* if (newMetric < bestMetric)
Improves(newMetric, best) == newMetric < best

\* The two nested for loops from start i on: the first range, i ascending
\* then j ascending, whose reversal improves on best; <<>> when the scan ends
\* without one.
RECURSIVE Scan(_, _, _, _)
Scan(closure, best, metric, i) ==
    IF i >= Len(best) THEN <<>>
    ELSE LET found == {j \in (i + 1)..Len(best) :
                          Improves(Metric(closure, ReverseRange(best, i, j)), metric)}
         IN  IF found = {} THEN Scan(closure, best, metric, i + 1)
             ELSE <<i, Min(found)>>

\* Faulty variant, for comparison: only ranges that start at the first
\* position are tried.
FirstImprovementAtStart(closure, best, metric) ==
    LET found == {j \in 2..Len(best) :
                     Improves(Metric(closure, ReverseRange(best, 1, j)), metric)}
    IN  IF found = {} THEN <<>> ELSE <<1, Min(found)>>

\* One pass of the while loop's body: the move it adopts.
FirstImprovement(closure, best, metric) == Scan(closure, best, metric, 1)

\* Faulty variant, for comparison: the loop has no cap.
LoopContinuesUncapped(isImproved, passes) == isImproved

\* while (improved && iterations < maxIterations)
LoopContinues(isImproved, passes) == isImproved /\ passes < MAX_ITERATIONS

\* for (i ...) for (j = i + 1 ...): the queries of the pairwise loop, in order.
PairRank(n, i, j) == (i - 1) * n - (i * (i - 1)) \div 2 + (j - i)

PairQueries(stopList) ==
    LET n == Len(stopList)
        pairs == {p \in (1..n) \X (1..n) : p[1] < p[2]}
    IN  [k \in 1..Cardinality(pairs) |->
            LET p == CHOOSE q \in pairs : PairRank(n, q[1], q[2]) = k
            IN  <<stopList[p[1]].address, stopList[p[2]].address>>]

\* metrics[`${i}-${j}`] = metrics[`${j}-${i}`] = the answer to query i-j, for
\* n stops; there is no entry i-i.
PairwiseMetrics(n, queries, answers) ==
    [i \in 1..n |-> [j \in 1..n |->
        IF i = j THEN Undefined
        ELSE LET k == CHOOSE m \in DOMAIN queries :
                          queries[m] = <<i, j>> \/ queries[m] = <<j, i>>
             IN  answers[k]]]

\* The closure handed to the 2-opt loop.
Closure(name, schoolEstimates, pairs) ==
    [name |-> name, schoolEstimates |-> schoolEstimates, pairs |-> pairs]

\* The seed of optimizeByMinimizeRideTime: descending by duration to school
\* times numKids.
WeightedSeed(stopList, schoolEstimates) ==
    SortDescending(stopList, [k \in DOMAIN stopList |->
                                 schoolEstimates[k] * stopList[k].numKids])

-----------------------------------------------------------------------------
(* The inputs of a run. *)

Implementations == {"five", "three"}

\* The geocoded location of the k-th input address: odd stops lie north of the
\* even ones, and later stops farther east; the school is at the origin.
LocationOf(k) == [lat |-> k % 2, lng |-> k]

StopListsUpTo(max) ==
    UNION {{[k \in 1..n |-> [address |-> k, numKids |-> kids[k],
                             location |-> LocationOf(k)]] :
               kids \in [1..n -> KidsChoices]} : n \in 0..max}

CapacityLists == UNION {[1..n -> CapacityChoices] : n \in 0..MaxBuses}

Schools ==
    {[name |-> 0, location |-> [lat |-> 0, lng |-> 0],
      arrivalTime |-> ArrivalTimeStr, departureTime |-> d] :
        d \in {Undefined, Some(DepartureTimeStr)}}

MorningStrategies == {Some("DISTANCE_FROM_SCHOOL")}

\* The return flags: no return trip (with the flags' defaults), and a return
\* trip under each of the three policies.  reverseReturnOrder is read first, so
\* prioritizeDirection matters only when it is false.
ReturnFlags ==
    {<<FALSE, TRUE, FALSE>>, <<TRUE, TRUE, FALSE>>, <<TRUE, FALSE, TRUE>>,
     <<TRUE, FALSE, FALSE>>}

OptionChoices ==
    {[includeReturn |-> f[1], reverseReturnOrder |-> f[2],
      prioritizeDirection |-> f[3], stopDuration |-> d, morningStrategy |-> m,
      customStartLocation |-> Undefined] :
        f \in ReturnFlags, d \in StopDurations, m \in MorningStrategies}

\* What the oracle throws: no element in the response, or a status other than OK.
OracleErrors == {"No route found", "Route calculation failed"}

\* The durations getTravelEstimate may answer for the trip from -> to.
Answers(from, to) ==
    IF <<from, to>> \in DOMAIN oracle THEN {oracle[<<from, to>>]} ELSE Durations

\* The answers to a list of queries <<from, to>>, one duration per query: a
\* duration of Answers for each.
AnswerSeqs(queries) ==
    LET free == {k \in DOMAIN queries : queries[k] \notin DOMAIN oracle}
    IN  {[k \in DOMAIN queries |-> IF k \in free THEN f[k] ELSE oracle[queries[k]]] :
            f \in [free -> Durations]}

\* stops.map(stop => getTravelEstimate(stop.location, school.location, ...))
SchoolQueries(stopList) ==
    [k \in 1..Len(stopList) |-> <<stopList[k].address, school.name>>]

\* The return leg's queries in part_000: school to the first return stop, then
\* each return stop to the next.
ReturnQueries(stopList) ==
    [k \in 1..Len(stopList) |->
        <<IF k = 1 THEN school.name ELSE stopList[k - 1].address,
          stopList[k].address>>]

inputVars == <<impl, stops, busCapacities, school, options, oracle, roads>>
pageVars == <<mounted, jsonInput, isLoading, pageError, hasData, optimizationResult,
              requests>>
loaderVars == <<googleMapsPromise, promises, scripts, loadCalls>>
\* What no step of a run of optimizeRoutes changes: its inputs, the page that
\* calls it and the script loader.
outsideVars == <<inputVars, pageVars, loaderVars>>
searchVars == <<sequence, calculateMetric, bestSequence, bestMetric, improved,
                iterations>>
sequenceVars == <<travelEstimates, sortedStops, strategyRun, searchVars>>
assignVars == <<stopGroups, index, noRoom>>
legVars == <<busIndex, pos, segments, estimatedTimes, currentTime, maxRideTime,
             minRideTime, optimizedStops, returnStops, returnSegments, returnTimes>>
fleetVars == <<routes, globalMaxRideTime, globalMinRideTime>>
promiseVars == <<awaiting, settled>>
oracleVars == <<oracleCalls, oracleFailed, callsAtFailure, morningDepartures,
               promiseVars>>

\* The state of a run's locals before the run has touched them: those of
\* optimizeRoutes, then those of the 2-opt loop.
\* null
Null == <<>>

\* The page before it mounts, with the useState defaults, and the loader's
\* module just evaluated.
PageNotShown ==
    /\ mounted = FALSE
    /\ jsonInput = "sample"
    /\ isLoading = FALSE
    /\ pageError = Null
    /\ hasData = FALSE
    /\ optimizationResult = Null
    /\ requests = <<>>
    /\ googleMapsPromise = Null
    /\ promises = <<>>
    /\ scripts = <<>>
    /\ loadCalls = <<>>

FreshRun ==
    /\ error = ""
    /\ result = Undefined
    /\ travelEstimates = <<>>
    /\ sortedStops = <<>>
    /\ stopGroups = <<>>
    /\ index = 0
    /\ noRoom = {}
    /\ busIndex = 0
    /\ pos = 0
    /\ segments = <<>>
    /\ estimatedTimes = <<>>
    /\ currentTime = 0
    /\ maxRideTime = 0
    /\ minRideTime = Infinity
    /\ optimizedStops = <<>>
    /\ returnStops = <<>>
    /\ returnSegments = <<>>
    /\ returnTimes = <<>>
    /\ routes = <<>>
    /\ globalMaxRideTime = 0
    /\ globalMinRideTime = Infinity
    /\ oracleCalls = 0
    /\ oracleFailed = FALSE
    /\ callsAtFailure = 0
    /\ morningDepartures = <<>>
    /\ awaiting = ""
    /\ settled = <<>>

Fresh ==
    /\ FreshRun
    /\ strategyRun = <<>>
    /\ sequence = <<>>
    /\ calculateMetric = Undefined
    /\ bestSequence = <<>>
    /\ bestMetric = 0
    /\ improved = FALSE
    /\ iterations = 0

Init ==
    /\ impl \in Implementations
    /\ stops \in StopListsUpTo(MaxStops)
    /\ busCapacities \in CapacityLists
    /\ school \in Schools
    /\ options \in OptionChoices
    /\ oracle = <<>>
    /\ roads = <<>>
    /\ pc = "ValidatingInput"
    /\ Fresh
    /\ PageNotShown

-----------------------------------------------------------------------------
(* How a run ends in failure: the async function's promise rejects and its   *)
(* locals are gone.                                                          *)

Throw(err) ==
    /\ pc' = "Failed"
    /\ error' = err
    /\ result' = Undefined
    /\ travelEstimates' = <<>>
    /\ sortedStops' = <<>>
    /\ sequence' = <<>>
    /\ calculateMetric' = Undefined
    /\ bestSequence' = <<>>
    /\ bestMetric' = 0
    /\ improved' = FALSE
    /\ iterations' = 0
    /\ stopGroups' = <<>>
    /\ index' = 0
    /\ noRoom' = {}
    /\ busIndex' = 0
    /\ pos' = 0
    /\ segments' = <<>>
    /\ estimatedTimes' = <<>>
    /\ currentTime' = 0
    /\ maxRideTime' = 0
    /\ minRideTime' = Infinity
    /\ optimizedStops' = <<>>
    /\ returnStops' = <<>>
    /\ returnSegments' = <<>>
    /\ returnTimes' = <<>>
    /\ routes' = <<>>
    /\ globalMaxRideTime' = 0
    /\ globalMinRideTime' = Infinity
    /\ UNCHANGED outsideVars

\* Faulty variant, for comparison: the error is caught and the run goes on to return what it has.
OracleErrorCaught(issued) ==
    /\ pc' = "Aggregating"
    /\ oracleCalls' = issued
    /\ oracleFailed' = TRUE
    /\ callsAtFailure' = issued
    /\ UNCHANGED morningDepartures
    /\ awaiting' = ""
    /\ settled' = <<>>
    /\ UNCHANGED <<outsideVars, error, result, travelEstimates, sortedStops,
                   searchVars, assignVars, legVars, fleetVars>>

\* getTravelEstimate throws on the query that makes `issued` queries in all;
\* no caller catches it.
OracleThrows(issued) ==
    /\ \E err \in OracleErrors : Throw(err)
    /\ oracleCalls' = issued
    /\ oracleFailed' = TRUE
    /\ callsAtFailure' = issued
    /\ UNCHANGED morningDepartures
    /\ awaiting' = ""
    /\ settled' = <<>>

-----------------------------------------------------------------------------
(* optimizeRoutes, stage by stage. *)

\* Faulty variant, for comparison: the departure time is not checked.
ValidateWithoutCheck ==
    /\ pc = "ValidatingInput"
    /\ pc' = "Sequencing"
    /\ UNCHANGED <<outsideVars, error, result, sequenceVars, assignVars, legVars,
                   fleetVars, oracleVars>>

\* if (options.includeReturn && !school.departureTime) throw ...
Validate ==
    /\ pc = "ValidatingInput"
    /\ IF options.includeReturn /\ school.departureTime = Undefined
       THEN /\ Throw("Departure time is required for return trips")
            /\ UNCHANGED <<strategyRun, oracleVars>>
       ELSE /\ pc' = "Sequencing"
            /\ UNCHANGED <<outsideVars, error, result, sequenceVars, assignVars,
                           legVars, fleetVars, oracleVars>>

\* The function the switch on options.morningStrategy calls.
StrategyCalled ==
    IF impl = "five"
    THEN CASE options.morningStrategy = Some("DISTANCE_MATRIX") -> "optimizeByDistanceMatrix"
           [] options.morningStrategy = Some("NEAREST_NEIGHBOR") -> "optimizeByNearestNeighbor"
           [] options.morningStrategy = Some("MINIMIZE_RIDE_TIME") -> "optimizeByMinimizeRideTime"
           [] options.morningStrategy = Some("MINIMIZE_TOTAL_DISTANCE") -> "optimizeByMinimizeTotalDistance"
           [] OTHER -> "optimizeByDistanceFromSchool"
    ELSE CASE options.morningStrategy = Some("MINIMIZE_RIDE_TIME") -> "optimizeByMinimizeRideTime"
           [] options.morningStrategy = Some("MINIMIZE_TOTAL_DISTANCE") -> "optimizeByMinimizeTotalDistance"
           [] OTHER -> "optimizeByDistanceFromSchool"

\* The strategy has returned: the stop groups are created, the forEach starts.
Sequenced(sorted) ==
    /\ sortedStops' = sorted
    /\ stopGroups' = [b \in 1..Len(busCapacities) |-> <<>>]
    /\ index' = 0
    /\ pc' = "Assigning"
    /\ UNCHANGED <<outsideVars, error, result, noRoom, legVars, fleetVars,
                   oracleFailed, callsAtFailure, morningDepartures>>

\* A strategy function is called: it is added to the record of calls.
Calls(name) == strategyRun' = Append(strategyRun, name)

\* sortedStops = await optimizeByDistanceFromSchool(stops, school): one query
\* per stop, all issued before Promise.all is awaited.
DistanceFromSchoolResolved(estimates) ==
    /\ travelEstimates' = estimates
    /\ Sequenced(optimizeByDistanceFromSchool(stops, estimates))
    /\ UNCHANGED searchVars

SequenceByDistanceFromSchool ==
    /\ pc = "Sequencing"
    /\ StrategyCalled = "optimizeByDistanceFromSchool"
    /\ awaiting = ""
    /\ strategyRun = <<>>
    /\ Calls("optimizeByDistanceFromSchool")
    /\ \/ /\ stops # <<>>
          /\ OracleThrows(oracleCalls + Len(stops))
       \/ \E estimates \in AnswerSeqs(SchoolQueries(stops)) :
             /\ oracleCalls' = oracleCalls + Len(stops)
             /\ UNCHANGED promiseVars
             /\ DistanceFromSchoolResolved(estimates)

\* One of a strategy's queries throws: by then at least `first` and at most
\* `total` of them have been issued.
StrategyQueryThrows(first, total) ==
    \E issued \in first..total : OracleThrows(oracleCalls + issued)

\* sortedStops = await optimizeByDistanceMatrix(stops, school, ...): one query
\* per ordered pair of the stops and the start point, then the greedy loop.
SequenceByDistanceMatrix ==
    /\ pc = "Sequencing"
    /\ StrategyCalled = "optimizeByDistanceMatrix"
    /\ strategyRun = <<>>
    /\ Calls("optimizeByDistanceMatrix")
    /\ LET n == Len(stops)
       IN  \/ StrategyQueryThrows(1, n * (n + 1))
           \/ \E matrix \in Matrices(stops) :
                /\ oracleCalls' = oracleCalls + n * (n + 1)
                /\ Sequenced(optimizeByDistanceMatrix(stops, matrix))
                /\ UNCHANGED <<travelEstimates, searchVars, promiseVars>>

\* sortedStops = await optimizeByNearestNeighbor(stops, school, ...): each round
\* queries the distance to every stop still unvisited.
SequenceByNearestNeighbor ==
    /\ pc = "Sequencing"
    /\ StrategyCalled = "optimizeByNearestNeighbor"
    /\ strategyRun = <<>>
    /\ Calls("optimizeByNearestNeighbor")
    /\ LET n == Len(stops)
           total == (n * (n + 1)) \div 2
       IN  \/ StrategyQueryThrows(1, total)
           \/ \E sorted \in optimizeByNearestNeighbor(stops) :
                /\ oracleCalls' = oracleCalls + total
                /\ Sequenced(sorted)
                /\ UNCHANGED <<travelEstimates, searchVars, promiseVars>>

\* The 2-opt loop is entered: bestSequence = [...sequence], bestMetric =
\* calculateMetric(bestSequence), improved = true, iterations = 0.
StartLocalSearch(closure, seed) ==
    /\ calculateMetric' = Some(closure)
    /\ sequence' = seed
    /\ bestSequence' = seed
    /\ bestMetric' = Metric(closure, seed)
    /\ improved' = TRUE
    /\ iterations' = 0
    /\ pc' = "LocalSearch"
    /\ UNCHANGED <<outsideVars, error, result, travelEstimates, sortedStops,
                   assignVars, legVars, fleetVars, oracleFailed, callsAtFailure, morningDepartures,
                   promiseVars>>

\* optimizeByMinimizeRideTime up to the 2-opt loop: the stop-to-school queries
\* (Promise.all), the pairwise queries one after another, the seed.
SequenceByMinimizeRideTime ==
    /\ pc = "Sequencing"
    /\ StrategyCalled = "optimizeByMinimizeRideTime"
    /\ strategyRun = <<>>
    /\ Calls("optimizeByMinimizeRideTime")
    /\ LET n == Len(stops)
           queries == PairQueries(stops)
       IN  \/ /\ n > 0
              /\ StrategyQueryThrows(n, n + Len(queries))
           \/ \E schoolEstimates \in AnswerSeqs(SchoolQueries(stops)),
                 travelTimes \in AnswerSeqs(queries) :
                /\ oracleCalls' = oracleCalls + n + Len(queries)
                /\ StartLocalSearch(
                       Closure("calculateWeightedRideTime", schoolEstimates,
                               PairwiseMetrics(n, queries, travelTimes)),
                       WeightedSeed(stops, schoolEstimates))

\* optimizeByMinimizeTotalDistance up to the 2-opt loop.  part_000 reads the
\* distance of the stop-to-school answers, routeOptimizer.ts their duration;
\* both read the distance of the pairwise answers.
SequenceByMinimizeTotalDistance ==
    /\ pc = "Sequencing"
    /\ StrategyCalled = "optimizeByMinimizeTotalDistance"
    /\ strategyRun = <<>>
    /\ Calls("optimizeByMinimizeTotalDistance")
    /\ LET n == Len(stops)
           queries == PairQueries(stops)
           schoolAnswers == IF impl = "five" THEN DistanceSeqs(SchoolQueries(stops))
                            ELSE AnswerSeqs(SchoolQueries(stops))
       IN  \/ /\ n > 0
              /\ StrategyQueryThrows(n, n + Len(queries))
           \/ \E schoolEstimates \in schoolAnswers,
                 distances \in DistanceSeqs(queries) :
                /\ oracleCalls' = oracleCalls + n + Len(queries)
                /\ StartLocalSearch(
                       Closure("calculateTotalDistance", schoolEstimates,
                               PairwiseMetrics(n, queries, distances)),
                       SortDescending(stops, schoolEstimates))

\* One pass of the while loop: iterations++, the scan, and the first improving
\* reversal adopted if there is one.
TwoOptPass ==
    /\ pc = "LocalSearch"
    /\ LoopContinues(improved, iterations)
    /\ LET move == FirstImprovement(calculateMetric[1], bestSequence, bestMetric)
           newSequence == ReverseRange(bestSequence, move[1], move[2])
       IN  /\ iterations' = iterations + 1
           /\ IF move = <<>>
              THEN /\ improved' = FALSE
                   /\ UNCHANGED <<bestSequence, bestMetric>>
              ELSE /\ improved' = TRUE
                   /\ bestSequence' = newSequence
                   /\ bestMetric' = Metric(calculateMetric[1], newSequence)
    /\ UNCHANGED <<outsideVars, pc, error, result, travelEstimates, sortedStops,
                   strategyRun, sequence, calculateMetric, assignVars, legVars,
                   fleetVars, oracleVars>>

\* The loop is over: return bestSequence, and the strategy returns it.
TwoOptReturn ==
    /\ pc = "LocalSearch"
    /\ ~LoopContinues(improved, iterations)
    /\ Sequenced(bestSequence)
    /\ UNCHANGED <<travelEstimates, strategyRun, searchVars, oracleCalls,
                   promiseVars>>

\* One call of the forEach callback.  With no bus, index % numBuses is NaN,
\* stopGroups[NaN] is undefined and currentBusStops.reduce throws a TypeError.
AssignStop ==
    /\ pc = "Assigning"
    /\ index < Len(sortedStops)
    /\ IF Len(busCapacities) = 0
       THEN /\ Throw("TypeError")
            /\ UNCHANGED <<strategyRun, oracleVars>>
       ELSE LET stop == sortedStops[index + 1]
                bus == TargetBus(stopGroups, busCapacities, index, stop)
            IN  /\ stopGroups' = IF bus = 0 THEN stopGroups
                                 ELSE [stopGroups EXCEPT ![bus] = Append(@, stop)]
                /\ noRoom' = IF \A b \in 1..Len(busCapacities) :
                                    ~HasRoom(stopGroups, busCapacities, b, stop)
                             THEN noRoom \cup {stop.address}
                             ELSE noRoom
                /\ index' = index + 1
                /\ UNCHANGED <<outsideVars, pc, error, result, sequenceVars, legVars,
                               fleetVars, oracleVars>>

\* The route loop reaches bus `bus` (0: it is over) and starts its morning leg.
BeginRoute(bus) ==
    /\ busIndex' = bus
    /\ pc' = IF bus = 0 THEN "Aggregating" ELSE "PropagatingMorning"
    /\ pos' = IF bus = 0 THEN 0
              ELSE IF impl = "five" THEN Len(stopGroups[bus]) ELSE 1
    /\ segments' = <<>>
    /\ estimatedTimes' = <<>>
    /\ currentTime' = schoolArrivalTime
    /\ maxRideTime' = 0
    /\ minRideTime' = Infinity
    /\ optimizedStops' = <<>>
    /\ returnStops' = <<>>
    /\ returnSegments' = <<>>
    /\ returnTimes' = <<>>

\* The forEach is over: the route loop starts.
AssignDone ==
    /\ pc = "Assigning"
    /\ index = Len(sortedStops)
    /\ BeginRoute(NextBus(stopGroups, 0))
    /\ travelEstimates' = <<>>
    /\ sequence' = <<>>
    /\ calculateMetric' = Undefined
    /\ bestSequence' = <<>>
    /\ bestMetric' = 0
    /\ improved' = FALSE
    /\ iterations' = 0
    /\ settled' = <<>>
    /\ UNCHANGED <<outsideVars, error, result, sortedStops, strategyRun, assignVars,
                   fleetVars, oracleCalls, oracleFailed, callsAtFailure, morningDepartures, awaiting>>

\* routes.push(...), the global metrics, and on to the next bus with a stop.
PushRoute(route) ==
    /\ routes' = Append(routes, route)
    /\ globalMaxRideTime' = MathMax(globalMaxRideTime, route.maxRideTime)
    /\ globalMinRideTime' = MathMin(globalMinRideTime, route.minRideTime)
    /\ BeginRoute(NextBus(stopGroups, busIndex))
    /\ UNCHANGED <<outsideVars, error, result, sequenceVars, assignVars,
                   oracleFailed, callsAtFailure>>

-----------------------------------------------------------------------------
(* Propagation in src/unnamed/part_000: inlined in the route loop. *)

\* One pass of the backwards loop: the awaited query for the stop at pos and
\* the code up to the next await.  After the last pass that is the choice of
\* the return order or, with no return trip, the reversal of the arrays and
\* routes.push.
MorningQueryFive ==
    /\ pc = "PropagatingMorning"
    /\ impl = "five"
    /\ LET busStops == stopGroups[busIndex]
           currentStop == busStops[pos]
       IN  \/ OracleThrows(oracleCalls + 1) /\ UNCHANGED strategyRun
           \/ \E duration \in Answers(currentStop.address,
                                        DestinationName(busStops, pos)) :
                LET time == currentTime - (duration + StopDuration)
                    rideTime == schoolArrivalTime - time
                    segs == Append(segments,
                                   Segment(currentStop.address,
                                           DestinationName(busStops, pos), duration))
                    times == Put(estimatedTimes, currentStop.address, time)
                    maxRide == MathMax(maxRideTime, rideTime)
                    minRide == MathMin(minRideTime, rideTime)
                    pushed == Append(optimizedStops, currentStop)
                IN  /\ oracleCalls' = oracleCalls + 1
                    /\ UNCHANGED promiseVars
                    /\ morningDepartures' = Put(morningDepartures, currentStop.address,
                                              getDateWithTime(currentTime))
                    /\ IF pos > 1
                       THEN /\ pos' = pos - 1
                            /\ segments' = segs
                            /\ estimatedTimes' = times
                            /\ currentTime' = time
                            /\ maxRideTime' = maxRide
                            /\ minRideTime' = minRide
                            /\ optimizedStops' = pushed
                            /\ UNCHANGED <<outsideVars, pc, error, result, sequenceVars,
                                           assignVars, busIndex, returnStops,
                                           returnSegments, returnTimes, fleetVars,
                                           oracleFailed, callsAtFailure>>
                       ELSE IF options.includeReturn
                       THEN /\ pc' = "PropagatingReturn"
                            /\ returnStops' = ReturnOrder(pushed)
                            /\ pos' = 0
                            /\ segments' = segs
                            /\ estimatedTimes' = times
                            /\ currentTime' = time
                            /\ maxRideTime' = maxRide
                            /\ minRideTime' = minRide
                            /\ optimizedStops' = pushed
                            /\ UNCHANGED <<outsideVars, error, result, sequenceVars,
                                           assignVars, busIndex, returnSegments,
                                           returnTimes, fleetVars, oracleFailed,
                                           callsAtFailure>>
                       ELSE PushRoute(Route(busIndex, Reverse(pushed), times,
                                            Reverse(segs), <<>>, <<>>, maxRide, minRide))

\* The return leg: one query per return stop, all issued before Promise.all is
\* awaited; then the drop-off times forward from the departure, the reversal
\* of the morning arrays and routes.push.
ReturnEstimatesResolved(durations) ==
    LET n == Len(returnStops)
        queries == ReturnQueries(returnStops)
        backSegs == [k \in 1..n |->
                        Segment(queries[k][1], queries[k][2], durations[k])]
        back == ReturnTimes(returnStops, backSegs, n, schoolDepartureTime,
                            StopDuration)
    IN  PushRoute(Route(busIndex, Reverse(optimizedStops), estimatedTimes,
                        Reverse(segments), backSegs, back.estimatedTimes,
                        maxRideTime, minRideTime))

ReturnLegFive ==
    /\ pc = "PropagatingReturn"
    /\ impl = "five"
    /\ awaiting = ""
    /\ LET n == Len(returnStops)
       IN  \/ OracleThrows(oracleCalls + n) /\ UNCHANGED strategyRun
           \/ \E durations \in AnswerSeqs(ReturnQueries(returnStops)) :
                /\ oracleCalls' = oracleCalls + n
                /\ UNCHANGED promiseVars
                /\ UNCHANGED morningDepartures
                /\ ReturnEstimatesResolved(durations)

-----------------------------------------------------------------------------
(* The two Promise.all calls response by response: every request is issued  *)
(* when the array of promises is built, the responses arrive in any order,   *)
(* and the await resumes when the last one has arrived or one is rejected.   *)

\* The requests of the Promise.all being awaited, in the order of its array.
PendingQueries ==
    IF awaiting = "travelEstimates" THEN SchoolQueries(stops)
    ELSE ReturnQueries(returnStops)

\* Faulty variant, for comparison: the results in the order of arrival.
PromiseAllInCompletionOrder(responses) ==
    [k \in 1..Len(responses) |-> responses[k].duration]

\* The array Promise.all resolves to: at position k the response to request k.
PromiseAll(responses) ==
    [k \in 1..Len(responses) |->
        LET m == CHOOSE i \in DOMAIN responses : responses[i].request = k
        IN  responses[m].duration]

\* optimizeByDistanceFromSchool is called and builds its array of promises.
DispatchTravelEstimates ==
    /\ pc = "Sequencing"
    /\ StrategyCalled = "optimizeByDistanceFromSchool"
    /\ awaiting = ""
    /\ strategyRun = <<>>
    /\ Calls("optimizeByDistanceFromSchool")
    /\ awaiting' = "travelEstimates"
    /\ settled' = <<>>
    /\ oracleCalls' = oracleCalls + Len(stops)
    /\ UNCHANGED <<outsideVars, pc, error, result, travelEstimates, sortedStops,
                   searchVars, assignVars, legVars, fleetVars, oracleFailed,
                   callsAtFailure, morningDepartures>>

\* The response to one of the requests still under way arrives, or the
\* request is rejected and with it the Promise.all.
Settle ==
    /\ awaiting # ""
    /\ \E k \in DOMAIN PendingQueries \ {settled[m].request : m \in DOMAIN settled} :
          \/ OracleThrows(oracleCalls) /\ UNCHANGED strategyRun
          \/ \E duration \in Answers(PendingQueries[k][1], PendingQueries[k][2]) :
                /\ settled' = Append(settled, [request |-> k, duration |-> duration])
                /\ UNCHANGED <<outsideVars, pc, error, result, sequenceVars,
                               assignVars, legVars, fleetVars, oracleCalls,
                               oracleFailed, callsAtFailure, morningDepartures, awaiting>>

\* Every response is in: optimizeByDistanceFromSchool resumes and returns.
TravelEstimatesAwaited ==
    /\ awaiting = "travelEstimates"
    /\ Len(settled) = Len(stops)
    /\ awaiting' = ""
    /\ UNCHANGED <<settled, oracleCalls, strategyRun>>
    /\ DistanceFromSchoolResolved(PromiseAll(settled))

\* part_000 builds the array of promises of the return leg.
DispatchReturnEstimates ==
    /\ pc = "PropagatingReturn"
    /\ impl = "five"
    /\ awaiting = ""
    /\ awaiting' = "returnEstimates"
    /\ settled' = <<>>
    /\ oracleCalls' = oracleCalls + Len(returnStops)
    /\ UNCHANGED <<outsideVars, pc, error, result, sequenceVars, assignVars, legVars,
                   fleetVars, oracleFailed, callsAtFailure, morningDepartures>>

\* Every response is in: the route loop resumes up to routes.push.
ReturnEstimatesAwaited ==
    /\ awaiting = "returnEstimates"
    /\ Len(settled) = Len(returnStops)
    /\ awaiting' = ""
    /\ UNCHANGED <<settled, oracleCalls, morningDepartures>>
    /\ ReturnEstimatesResolved(PromiseAll(settled))

-----------------------------------------------------------------------------
(* Propagation in src/src/utils/routeOptimizer.ts: calculateRouteSegments. *)

\* One pass of the segment loop of the morning call; after the last pass the
\* pickup times backwards from the arrival, then the choice of the return
\* order or, with no return trip, routes.push.
MorningQueryThree ==
    /\ pc = "PropagatingMorning"
    /\ impl = "three"
    /\ LET busStops == stopGroups[busIndex]
           currentStop == busStops[pos]
       IN  \/ OracleThrows(oracleCalls + 1) /\ UNCHANGED strategyRun
           \/ \E duration \in Answers(currentStop.address,
                                        DestinationName(busStops, pos)) :
                LET segs == Append(segments,
                                   Segment(currentStop.address,
                                           DestinationName(busStops, pos), duration))
                    morning == MorningTimes(busStops, segs, 1, schoolArrivalTime,
                                            StopDuration)
                IN  /\ oracleCalls' = oracleCalls + 1
                    /\ UNCHANGED promiseVars
                    /\ morningDepartures' = Put(morningDepartures, currentStop.address,
                                              getDateWithTime(schoolArrivalTime))
                    /\ IF pos < Len(busStops)
                       THEN /\ pos' = pos + 1
                            /\ segments' = segs
                            /\ UNCHANGED <<outsideVars, pc, error, result, sequenceVars,
                                           assignVars, busIndex, estimatedTimes,
                                           currentTime, maxRideTime, minRideTime,
                                           optimizedStops, returnStops, returnSegments,
                                           returnTimes, fleetVars, oracleFailed,
                                           callsAtFailure>>
                       ELSE IF options.includeReturn
                       THEN /\ pc' = "PropagatingReturn"
                            /\ returnStops' = ReturnOrder(busStops)
                            /\ pos' = 1
                            /\ segments' = segs
                            /\ estimatedTimes' = morning.estimatedTimes
                            /\ currentTime' = schoolDepartureTime
                            /\ maxRideTime' = morning.maxRideTime
                            /\ minRideTime' = morning.minRideTime
                            /\ UNCHANGED <<outsideVars, error, result, sequenceVars,
                                           assignVars, busIndex, optimizedStops,
                                           returnSegments, returnTimes, fleetVars,
                                           oracleFailed, callsAtFailure>>
                       ELSE PushRoute(Route(busIndex, busStops, morning.estimatedTimes,
                                            segs, <<>>, <<>>, morning.maxRideTime,
                                            morning.minRideTime))

\* One pass of the segment loop of the return call; after the last pass the
\* drop-off times forward from the departure, then routes.push.
ReturnQueryThree ==
    /\ pc = "PropagatingReturn"
    /\ impl = "three"
    /\ LET currentStop == returnStops[pos]
       IN  \/ OracleThrows(oracleCalls + 1) /\ UNCHANGED strategyRun
           \/ \E duration \in Answers(currentStop.address,
                                        DestinationName(returnStops, pos)) :
                LET backSegs == Append(returnSegments,
                                       Segment(currentStop.address,
                                               DestinationName(returnStops, pos),
                                               duration))
                    back == ReturnTimes(returnStops, backSegs, Len(returnStops),
                                        schoolDepartureTime, StopDuration)
                IN  /\ oracleCalls' = oracleCalls + 1
                    /\ UNCHANGED promiseVars
                    /\ UNCHANGED morningDepartures
                    /\ IF pos < Len(returnStops)
                       THEN /\ pos' = pos + 1
                            /\ returnSegments' = backSegs
                            /\ UNCHANGED <<outsideVars, pc, error, result, sequenceVars,
                                           assignVars, busIndex, segments,
                                           estimatedTimes, currentTime, maxRideTime,
                                           minRideTime, optimizedStops, returnStops,
                                           returnTimes, fleetVars, oracleFailed,
                                           callsAtFailure>>
                       ELSE PushRoute(Route(busIndex, stopGroups[busIndex],
                                            estimatedTimes, segments, backSegs,
                                            back.estimatedTimes, maxRideTime,
                                            minRideTime))

-----------------------------------------------------------------------------

\* const result = {...}; return result
Aggregate ==
    /\ pc = "Aggregating"
    /\ result' = Some(Result(routes, globalMaxRideTime, globalMinRideTime))
    /\ pc' = "Done"
    /\ UNCHANGED <<outsideVars, error, sequenceVars, assignVars, legVars, fleetVars,
                   oracleVars>>

Next ==
    \/ Validate
    \/ SequenceByDistanceFromSchool
    \/ AssignStop
    \/ AssignDone
    \/ MorningQueryFive
    \/ ReturnLegFive
    \/ MorningQueryThree
    \/ ReturnQueryThree
    \/ Aggregate

Spec == Init /\ [][Next]_vars

-----------------------------------------------------------------------------
(* The sequencing strategy on its own: the same step from the start of the   *)
(* Sequencing stage, over longer stop lists.                                 *)

MaxSequenced == 3

InitSequencing ==
    /\ impl \in Implementations
    /\ stops \in StopListsUpTo(MaxSequenced)
    /\ busCapacities \in CapacityLists
    /\ school \in Schools
    /\ options \in {o \in OptionChoices : ~o.includeReturn}
    /\ oracle = <<>>
    /\ roads = <<>>
    /\ pc = "Sequencing"
    /\ Fresh
    /\ PageNotShown

NextSequencing == SequenceByDistanceFromSchool

SpecSequencing == InitSequencing /\ [][NextSequencing]_vars

-----------------------------------------------------------------------------
(* Every sequencing strategy on its own, from the start of the Sequencing    *)
(* stage, for every value of options.morningStrategy.                        *)

MaxStrategyStops == 2

AllMorningStrategies ==
    {Undefined} \cup {Some(m) : m \in {"DISTANCE_FROM_SCHOOL", "MINIMIZE_RIDE_TIME",
                                       "MINIMIZE_TOTAL_DISTANCE", "DISTANCE_MATRIX",
                                       "NEAREST_NEIGHBOR"}}

\* Options without a return trip, with the given strategies.
MorningOptions(strategies) ==
    {[includeReturn |-> FALSE, reverseReturnOrder |-> TRUE,
      prioritizeDirection |-> FALSE, stopDuration |-> d, morningStrategy |-> m,
      customStartLocation |-> Undefined] :
        d \in StopDurations, m \in strategies}

InitStrategies ==
    /\ impl \in Implementations
    /\ stops \in StopListsUpTo(MaxStrategyStops)
    /\ busCapacities \in [1..1 -> CapacityChoices]
    /\ school \in Schools
    /\ options \in MorningOptions(AllMorningStrategies)
    /\ oracle = <<>>
    /\ roads = <<>>
    /\ pc = "Sequencing"
    /\ Fresh
    /\ PageNotShown

NextStrategies ==
    \/ SequenceByDistanceFromSchool
    \/ SequenceByDistanceMatrix
    \/ SequenceByNearestNeighbor
    \/ SequenceByMinimizeRideTime
    \/ SequenceByMinimizeTotalDistance
    \/ TwoOptPass
    \/ TwoOptReturn

SpecStrategies == InitStrategies /\ [][NextStrategies]_vars

-----------------------------------------------------------------------------
(* The 2-opt local search: the two strategies that use it over three stops   *)
(* and every answer of the oracle; optimizeSequenceWith2Opt on its own for   *)
(* every seed and every cost function over three stops with costs up to      *)
(* MaxCost; and a run of optimizeByMinimizeRideTime over nineteen stops in   *)
(* set traffic.                                                              *)

MaxCost == 2

StopsOfOneKid(n) ==
    [k \in 1..n |-> [address |-> k, numKids |-> 1, location |-> LocationOf(k)]]

\* Every order of the stops of stopList.
Arrangements(stopList) ==
    LET n == Len(stopList)
    IN  {[k \in 1..n |-> stopList[p[k]]] :
            p \in {q \in [1..n -> 1..n] : \A a, b \in 1..n : a # b => q[a] # q[b]}}

\* Traffic in which stop k is k minutes from the school and two stops are as
\* many minutes apart as the smaller of their numbers.
ChainTraffic ==
    [p \in {q \in (1..19) \X (0..19) : q[2] = 0 \/ q[1] < q[2]} |->
        p[1]]

Init2OptStrategies ==
    /\ impl \in Implementations
    /\ stops \in {stopList \in StopListsUpTo(3) : Len(stopList) = 3}
    /\ options \in MorningOptions({Some("MINIMIZE_RIDE_TIME"),
                                   Some("MINIMIZE_TOTAL_DISTANCE")})
    /\ oracle = <<>>
    /\ roads = <<>>
    /\ pc = "Sequencing"
    /\ Fresh
    /\ PageNotShown

Init2OptChain ==
    /\ impl \in Implementations
    /\ stops = StopsOfOneKid(19)
    /\ options \in {o \in MorningOptions({Some("MINIMIZE_RIDE_TIME")}) :
                        o.stopDuration = 0}
    /\ oracle = ChainTraffic
    /\ roads = <<>>
    /\ pc = "Sequencing"
    /\ Fresh
    /\ PageNotShown

\* optimizeSequenceWith2Opt(sequence, calculateMetric) after its first lines.
Init2OptAnyMetric ==
    /\ impl = "three"
    /\ stops = StopsOfOneKid(3)
    /\ options \in {o \in MorningOptions({Some("MINIMIZE_RIDE_TIME")}) :
                        o.stopDuration = 0}
    /\ oracle = <<>>
    /\ roads = <<>>
    /\ pc = "LocalSearch"
    /\ FreshRun
    /\ PageNotShown
    /\ strategyRun = <<"optimizeByMinimizeRideTime">>
    /\ sequence \in Arrangements(stops)
    /\ \E table \in [{[k \in DOMAIN seq |-> seq[k].address] :
                        seq \in Arrangements(stops)} -> 0..MaxCost] :
          calculateMetric = Some([name |-> "any", table |-> table])
    /\ bestSequence = sequence
    /\ bestMetric = Metric(calculateMetric[1], sequence)
    /\ improved = TRUE
    /\ iterations = 0

Init2Opt ==
    /\ busCapacities = <<2>>
    /\ school \in {s \in Schools : s.departureTime = Undefined}
    /\ \/ Init2OptStrategies
       \/ Init2OptChain
       \/ Init2OptAnyMetric

Next2Opt ==
    \/ SequenceByMinimizeRideTime
    \/ SequenceByMinimizeTotalDistance
    \/ TwoOptPass
    \/ TwoOptReturn

Spec2Opt == Init2Opt /\ [][Next2Opt]_vars

\* What every step of the loop does to its position: a pass counts itself,
\* the return leaves the loop.
loopVars == <<pc, iterations>>

LoopStep ==
    /\ pc = "LocalSearch"
    /\ \/ pc' = "LocalSearch" /\ iterations' = iterations + 1
       \/ pc' = "Assigning" /\ iterations' = iterations

\* The same with the loop scheduled: it is synchronous code, so once entered
\* it keeps taking its steps.  The queries before it are awaited, and nothing
\* makes the oracle answer.
Spec2OptLive == Init2Opt /\ [][Next2Opt]_vars /\ WF_loopVars(LoopStep)

-----------------------------------------------------------------------------
(* The run with the two Promise.all calls taken response by response.        *)

MaxConcurrent == 2

InitConcurrent ==
    /\ impl \in Implementations
    /\ stops \in StopListsUpTo(MaxConcurrent)
    /\ busCapacities \in [1..1 -> CapacityChoices]
    /\ school \in Schools
    /\ options \in OptionChoices
    /\ oracle = <<>>
    /\ roads = <<>>
    /\ pc = "Sequencing"
    /\ Fresh
    /\ PageNotShown

NextConcurrent ==
    \/ DispatchTravelEstimates
    \/ Settle
    \/ TravelEstimatesAwaited
    \/ AssignStop
    \/ AssignDone
    \/ MorningQueryFive
    \/ DispatchReturnEstimates
    \/ ReturnEstimatesAwaited
    \/ MorningQueryThree
    \/ ReturnQueryThree
    \/ Aggregate

SpecConcurrent == InitConcurrent /\ [][NextConcurrent]_vars

-----------------------------------------------------------------------------
(* A worked run: stop A (address 1, 10 kids) is 15 minutes from the school,  *)
(* stop B (address 2, 5 kids) is 25 minutes from the school and from A; one  *)
(* bus of 20 seats.  The traffic pins these three durations; every other     *)
(* trip answers any of Durations.                                            *)

ScenarioStops ==
    <<[address |-> 1, numKids |-> 10, location |-> LocationOf(1)],
      [address |-> 2, numKids |-> 5, location |-> LocationOf(2)]>>

ScenarioCapacities == <<20>>

ScenarioTraffic == (<<1, 0>> :> 15) @@ (<<2, 0>> :> 25) @@ (<<2, 1>> :> 25)

InitScenario ==
    /\ impl \in Implementations
    /\ stops = ScenarioStops
    /\ busCapacities = ScenarioCapacities
    /\ school \in Schools
    /\ options \in OptionChoices
    /\ oracle = ScenarioTraffic
    /\ roads = <<>>
    /\ pc = "ValidatingInput"
    /\ Fresh
    /\ PageNotShown

SpecScenario == InitScenario /\ [][Next]_vars

-----------------------------------------------------------------------------
(* Properties. *)

RECURSIVE SumSeq(_)
SumSeq(s) == IF s = <<>> THEN 0 ELSE Head(s) + SumSeq(Tail(s))

RECURSIVE SumCurrentKids(_)
SumCurrentKids(rs) ==
    IF rs = <<>> THEN 0 ELSE Head(rs).currentKids + SumCurrentKids(Tail(rs))

\* The places <<bus, position>> of the stop groups that hold address a.
Places(a) ==
    {p \in UNION {{<<b, k>> : k \in DOMAIN stopGroups[b]} : b \in DOMAIN stopGroups} :
        stopGroups[p[1]][p[2]].address = a}

\* The addresses of a stop list, in order.
Addresses(stopList) == [k \in DOMAIN stopList |-> stopList[k].address]

\* The order in which a route's return leg visits the stops.  part_000's return
\* segments lead to the stop visited; calculateRouteSegments' lead from it.
ReturnVisitOrder(route) ==
    LET segs == route.returnSegments[1]
    IN  [k \in DOMAIN segs |-> IF impl = "five" THEN segs[k].to ELSE segs[k].from]

\* C1: during and after capacity assignment every bus's running sum of numKids
\* is at most its capacity; every emitted route has currentKids <= busCapacity
\* and the routes' currentKids sum to at most the sum of the capacities.
SeatsWithinCapacity ==
    /\ \A b \in DOMAIN stopGroups : SumKids(stopGroups[b]) <= busCapacities[b]
    /\ \A r \in DOMAIN routes : routes[r].currentKids <= routes[r].busCapacity
    /\ SumCurrentKids(routes) <= SumSeq(busCapacities)

\* A run that returned, with a full bus's route emitted and a stop that found
\* no room.
SeatsWithinCapacityWitness ==
    /\ pc = "Done"
    /\ noRoom # {}
    /\ \E r \in DOMAIN routes : routes[r].currentKids = routes[r].busCapacity

\* C2: every processed stop of the sequenced list is at exactly one place of
\* the stop groups, except a stop no bus had room for when it was processed,
\* which is at none; a stop not yet processed is at none.
EachStopInOneGroup ==
    \A k \in DOMAIN sortedStops :
        LET a == sortedStops[k].address
        IN  Cardinality(Places(a)) = IF k <= index /\ a \notin noRoom THEN 1 ELSE 0

\* Assignment is over; the first stop went to a bus other than its preferred
\* one and the second found no room anywhere.
EachStopInOneGroupWitness ==
    /\ pc = "PropagatingMorning"
    /\ Len(sortedStops) = 2
    /\ Places(sortedStops[1].address) = {<<2, 1>>}
    /\ noRoom = {sortedStops[2].address}

\* C3: a run in which some stop found no room on any bus does not return a
\* result as if nothing had happened (the result has no field that names an
\* unassigned stop, so it must not return at all).
DroppedStopIsReported ==
    pc = "Done" => noRoom = {}

\* C4: in part_000, with includeReturn and reverseReturnOrder, every emitted
\* route's return leg visits the stops in the reverse of route.stops.
ReturnOrderIsReverseOfMorning ==
    (impl = "five" /\ options.includeReturn /\ options.reverseReturnOrder) =>
        \A r \in DOMAIN routes :
            ReturnVisitOrder(routes[r]) = Reverse(Addresses(routes[r].stops))

\* C5 as stated: the morning clock times of every emitted route are strictly
\* increasing in pickup order and stay strictly below the school arrival.
MorningTimesStrictlyOrdered ==
    \A r \in DOMAIN routes :
        LET route == routes[r]
            n == Len(route.stops)
            at(k) == IF k > n THEN schoolArrivalTime
                     ELSE route.estimatedTimes[route.stops[k].address]
        IN  \A k \in 1..n : at(k) < at(k + 1)

\* C5 as amended: the morning clock times of every emitted route never
\* decrease in pickup order and never exceed the school arrival; a stop's time
\* is strictly below the next one (the arrival, for the last stop) whenever its
\* leg's duration plus the dwell time is positive.
MorningTimesOrdered ==
    \A r \in DOMAIN routes :
        LET route == routes[r]
            n == Len(route.stops)
            at(k) == IF k > n THEN schoolArrivalTime
                     ELSE route.estimatedTimes[route.stops[k].address]
        IN  \A k \in 1..n :
                /\ at(k) <= at(k + 1)
                /\ route.segments[k].duration + StopDuration > 0 => at(k) < at(k + 1)

\* An emitted route of two stops picked up at the same minute, before the
\* arrival.
MorningTimesOrderedWitness ==
    \E r \in DOMAIN routes :
        LET route == routes[r]
        IN  /\ Len(route.stops) = 2
            /\ route.estimatedTimes[route.stops[1].address]
                 = route.estimatedTimes[route.stops[2].address]
            /\ route.estimatedTimes[route.stops[2].address] < schoolArrivalTime

\* C6 as stated: the drop-off clock times of every emitted route with a return
\* leg are strictly increasing in visiting order, from strictly above the
\* school departure.
ReturnTimesStrictlyOrdered ==
    \A r \in DOMAIN routes :
        routes[r].returnTimes # Undefined =>
            LET order == ReturnVisitOrder(routes[r])
                times == routes[r].returnTimes[1]
                at(k) == IF k = 0 THEN schoolDepartureTime ELSE times[order[k]]
            IN  \A k \in DOMAIN order : at(k - 1) < at(k)

\* C6 as amended: the drop-off clock times never decrease in visiting order
\* and are never below the school departure; a stop's time is strictly above
\* the one before (the departure, for the first stop) whenever its segment's
\* duration plus the dwell time is positive.
ReturnTimesOrdered ==
    \A r \in DOMAIN routes :
        routes[r].returnTimes # Undefined =>
            LET order == ReturnVisitOrder(routes[r])
                times == routes[r].returnTimes[1]
                segs == routes[r].returnSegments[1]
                at(k) == IF k = 0 THEN schoolDepartureTime ELSE times[order[k]]
            IN  \A k \in DOMAIN order :
                    /\ at(k - 1) <= at(k)
                    /\ segs[k].duration + StopDuration > 0 => at(k - 1) < at(k)

\* An emitted route whose return leg drops its first stop after the departure
\* and its second at the same minute as the first.
ReturnTimesOrderedWitness ==
    \E r \in DOMAIN routes :
        /\ routes[r].returnTimes # Undefined
        /\ LET order == ReturnVisitOrder(routes[r])
               times == routes[r].returnTimes[1]
           IN  /\ Len(order) = 2
               /\ schoolDepartureTime < times[order[1]]
               /\ times[order[1]] = times[order[2]]

\* C7: in a run that returned, every route has rideTimeEquity = maxRideTime -
\* minRideTime >= 0, and so has the result, whatever the number of routes.
RideTimeEquityNonNegative ==
    pc = "Done" =>
        /\ \A r \in DOMAIN result[1].routes :
              LET route == result[1].routes[r]
              IN  /\ route.rideTimeEquity = route.maxRideTime - route.minRideTime
                  /\ route.rideTimeEquity >= 0
        /\ result[1].rideTimeEquity = result[1].maxRideTime - result[1].minRideTime
        /\ result[1].rideTimeEquity >= 0

\* C8: a run with includeReturn and no school.departureTime, once past
\* validation, has failed with the input error, without a result and without
\* an oracle query issued.
MissingDepartureFailsFirst ==
    (options.includeReturn /\ school.departureTime = Undefined
        /\ pc # "ValidatingInput") =>
        /\ pc = "Failed"
        /\ error = "Departure time is required for return trips"
        /\ result = Undefined
        /\ oracleCalls = 0

\* Such a run, after its validation step.
MissingDepartureFailsFirstWitness ==
    /\ options.includeReturn
    /\ school.departureTime = Undefined
    /\ pc = "Failed"

\* C9: once an oracle query has failed the run has failed with the oracle's
\* error, there is no result, and no query has been issued since.
OracleFailureFailsRun ==
    oracleFailed =>
        /\ pc = "Failed"
        /\ error \in OracleErrors
        /\ result = Undefined
        /\ oracleCalls = callsAtFailure

\* A run of two stops whose oracle failed on a propagation query, after a
\* whole route's worth of queries.
OracleFailureFailsRunWitness ==
    /\ oracleFailed
    /\ Len(stops) = 2
    /\ oracleCalls >= 4

\* C10: the sequence optimizeByDistanceFromSchool returns is the one
\* arrangement of the input stops in which, of any two stops, the one with
\* the longer stop-to-school duration comes first, and of two with the same
\* duration the one earlier in the input comes first.
DistanceFromSchoolOrder ==
    pc = "Assigning" =>
        /\ Len(sortedStops) = Len(stops)
        /\ Range(sortedStops) = Range(stops)
        /\ \A k, m \in DOMAIN sortedStops :
              k < m =>
                LET a == sortedStops[k].address
                    b == sortedStops[m].address
                IN  \/ travelEstimates[a] > travelEstimates[b]
                    \/ travelEstimates[a] = travelEstimates[b] /\ a < b

\* Three stops sequenced: the first has the shortest duration and comes last,
\* the other two tie and keep their input order.
DistanceFromSchoolOrderWitness ==
    /\ pc = "Assigning"
    /\ Len(stops) = 3
    /\ travelEstimates[1] < travelEstimates[2]
    /\ travelEstimates[2] = travelEstimates[3]
    /\ Addresses(sortedStops) = <<2, 3, 1>>

RECURSIVE SumStops(_)
SumStops(rs) == IF rs = <<>> THEN 0 ELSE Len(Head(rs).stops) + SumStops(Tail(rs))

\* C17: in a run without includeReturn the return stage is never entered, the
\* queries issued by the end of the route loop are the strategy's (one per
\* stop) and the morning legs' (one per stop of each route) and no other, and
\* every emitted route has returnSegments and returnTimes undefined.
NoReturnLegWithoutReturn ==
    ~options.includeReturn =>
        /\ pc # "PropagatingReturn"
        /\ pc \in {"Aggregating", "Done"} =>
              oracleCalls = Len(stops) + SumStops(routes)
        /\ \A r \in DOMAIN routes :
              /\ routes[r].returnSegments = Undefined
              /\ routes[r].returnTimes = Undefined
        /\ pc = "Done" =>
              \A r \in DOMAIN result[1].routes :
                  /\ result[1].routes[r].returnSegments = Undefined
                  /\ result[1].routes[r].returnTimes = Undefined

\* A run without a return trip that returned two routes.
NoReturnLegWithoutReturnWitness ==
    /\ ~options.includeReturn
    /\ pc = "Done"
    /\ Len(result[1].routes) = 2
    /\ oracleCalls = 4

\* C18: every emitted route's totalRideTime is the school arrival minus the
\* earliest pickup time of its stops, plus, in a run with a return trip, the
\* latest drop-off time of its stops minus the school departure.
TotalRideTimeIsSpanOfLegs ==
    \A r \in DOMAIN routes :
        LET route == routes[r]
            pickups == {route.estimatedTimes[route.stops[k].address] :
                           k \in DOMAIN route.stops}
            earliest == CHOOSE t \in pickups : \A u \in pickups : t <= u
            dropoffs == {route.returnTimes[1][route.stops[k].address] :
                            k \in DOMAIN route.stops}
            latest == CHOOSE t \in dropoffs : \A u \in dropoffs : t >= u
        IN  route.totalRideTime =
                IF options.includeReturn
                THEN (schoolArrivalTime - earliest) + (latest - schoolDepartureTime)
                ELSE schoolArrivalTime - earliest

\* A route of two stops with a return leg: four minutes out and four back.
TotalRideTimeIsSpanOfLegsWitness ==
    \E r \in DOMAIN routes :
        /\ Len(routes[r].stops) = 2
        /\ routes[r].returnTimes # Undefined
        /\ schoolArrivalTime - Min(Values(routes[r].estimatedTimes)) = 4
        /\ routes[r].totalRideTime = 8

\* C20: one step of capacity assignment places the stop at position k of the
\* sequenced list on bus k mod numBuses when that bus's used seats plus the
\* stop's numKids is at most its capacity, otherwise on the lowest-indexed
\* other bus for which that holds, otherwise on no bus; used seats is the sum
\* of numKids of the stops already on the bus.
AssignmentFollowsPolicy ==
    [][(pc = "Assigning" /\ index' = index + 1) =>
          LET stop == sortedStops[index + 1]
              numBuses == Len(busCapacities)
              fits(b) == SumKids(stopGroups[b]) + stop.numKids <= busCapacities[b]
              preferred == (index % numBuses) + 1
              others == {b \in 1..numBuses : b # preferred /\ fits(b)}
              lowest == CHOOSE b \in others : \A c \in others : b <= c
              placed(b) == stopGroups' = [stopGroups EXCEPT ![b] = Append(@, stop)]
          IN  IF fits(preferred) THEN placed(preferred)
              ELSE IF others # {} THEN placed(lowest)
              ELSE stopGroups' = stopGroups]_vars

\* Both stops have been assigned, each to the bus other than its preferred
\* one: the first to bus 1 (0-based), the second to bus 0.
AssignmentFollowsPolicyWitness ==
    /\ pc = "Assigning"
    /\ index = 2
    /\ Places(sortedStops[1].address) = {<<2, 1>>}
    /\ Places(sortedStops[2].address) = {<<1, 1>>}

\* C15 as stated: in the worked run with a dwell time of 1 the pickup order is
\* [B, A], A is picked up at 465, B at 439, and totalStudentMinutes is 355.
ScenarioTimesAsStated ==
    (pc = "Done" /\ options.stopDuration = 1) =>
        /\ Len(result[1].routes) = 1
        /\ Addresses(result[1].routes[1].stops) = <<2, 1>>
        /\ result[1].routes[1].estimatedTimes[1] = 465
        /\ result[1].routes[1].estimatedTimes[2] = 439
        /\ result[1].routes[1].totalStudentMinutes = 355

\* C15 as amended: in the worked run the sequence is [B, A]; with a dwell time
\* of 1 the one route picks up in the order [B, A], A at 464, B at 438, and
\* its totalStudentMinutes is 370.
ScenarioTimes ==
    /\ pc = "Assigning" => Addresses(sortedStops) = <<2, 1>>
    /\ (pc = "Done" /\ options.stopDuration = 1) =>
          /\ Len(result[1].routes) = 1
          /\ Addresses(result[1].routes[1].stops) = <<2, 1>>
          /\ result[1].routes[1].estimatedTimes[1] = 464
          /\ result[1].routes[1].estimatedTimes[2] = 438
          /\ result[1].routes[1].totalStudentMinutes = 370

\* The worked run has returned, with a dwell time of 1 and no return trip.
ScenarioTimesWitness ==
    /\ pc = "Done"
    /\ options.stopDuration = 1
    /\ ~options.includeReturn
    /\ oracle = ScenarioTraffic
    /\ result[1].routes[1].currentKids = 15

-----------------------------------------------------------------------------
(* The sequencing strategies. *)

\* How many times a stop occurs in a list.
Occurrences(stopList, stop) ==
    Cardinality({k \in DOMAIN stopList : stopList[k] = stop})

\* C14: whichever strategy ran, the list it returns holds every input stop
\* exactly as often as the input does and nothing else; this covers the empty
\* and the single-stop input.
StrategyReturnsPermutation ==
    pc = "Assigning" =>
        /\ Len(sortedStops) = Len(stops)
        /\ \A k \in DOMAIN stops :
              Occurrences(sortedStops, stops[k]) = Occurrences(stops, stops[k])

\* The nearest-neighbour strategy has returned two stops in the other order.
StrategyReturnsPermutationWitness ==
    /\ pc = "Assigning"
    /\ strategyRun = <<"optimizeByNearestNeighbor">>
    /\ Len(stops) = 2
    /\ Addresses(sortedStops) = <<2, 1>>

\* The function that carries the name of a value of the strategy enumeration;
\* optimizeByDistanceFromSchool when the option is absent.
StrategyNamed(morningStrategy) ==
    CASE morningStrategy = Some("DISTANCE_MATRIX") -> "optimizeByDistanceMatrix"
      [] morningStrategy = Some("NEAREST_NEIGHBOR") -> "optimizeByNearestNeighbor"
      [] morningStrategy = Some("MINIMIZE_RIDE_TIME") -> "optimizeByMinimizeRideTime"
      [] morningStrategy = Some("MINIMIZE_TOTAL_DISTANCE") ->
             "optimizeByMinimizeTotalDistance"
      [] OTHER -> "optimizeByDistanceFromSchool"

\* C16: in either implementation a run that is past the Sequencing stage has
\* invoked exactly one strategy, the one named by options.morningStrategy, and
\* optimizeByDistanceFromSchool when the option is absent.
RunInvokesNamedStrategy ==
    /\ Len(strategyRun) <= 1
    /\ strategyRun # <<>> => strategyRun = <<StrategyNamed(options.morningStrategy)>>
    /\ pc # "Sequencing" => strategyRun # <<>>

-----------------------------------------------------------------------------
(* The 2-opt local search. *)

\* The cost function of the search under way.
Cost(seq) == Metric(calculateMetric[1], seq)

\* A search is under way or has returned.
Searched == pc \in {"LocalSearch", "Assigning"} /\ calculateMetric # Undefined

\* No reversal of a range i..j, i < j, of seq costs strictly less than seq.
LocallyOptimal(seq) ==
    \A i, j \in 1..Len(seq) : i < j => Cost(ReverseRange(seq, i, j)) >= Cost(seq)

\* C11: for every cost function and every seed, the tracked best cost is the
\* cost of the tracked best sequence and never above the seed's cost, no pass
\* raises it, and the cost of the sequence returned is at most the seed's.
TwoOptNeverWorsens ==
    /\ [](Searched => /\ bestMetric = Cost(bestSequence)
                      /\ bestMetric <= Cost(sequence))
    /\ []((Searched /\ pc = "Assigning") => Cost(sortedStops) <= Cost(sequence))
    /\ [][pc = "LocalSearch" => bestMetric' <= bestMetric]_vars

\* A search over an arbitrary cost function has returned a sequence that is
\* strictly cheaper than its seed.
TwoOptNeverWorsensWitness ==
    /\ pc = "Assigning"
    /\ calculateMetric # Undefined
    /\ calculateMetric[1].name = "any"
    /\ Len(sequence) >= 2
    /\ Cost(sortedStops) < Cost(sequence)

\* C12 as stated: the sequence the 2-opt optimizer returns is locally optimal,
\* for any cost function and any seed.
ReturnedSequenceLocallyOptimal ==
    (Searched /\ pc = "Assigning") => LocallyOptimal(sortedStops)

\* C12 as amended: the sequence returned is locally optimal whenever the last
\* pass of the loop found no improving reversal, that is, unless the cap of
\* MAX_ITERATIONS passes ended the loop after a pass that still improved.
ReturnedSequenceLocallyOptimalUnlessCapped ==
    (Searched /\ pc = "Assigning" /\ ~improved) => LocallyOptimal(sortedStops)

\* A search over an arbitrary cost function moved away from its seed and
\* returned after a pass without improvement.
ReturnedSequenceLocallyOptimalWitness ==
    /\ pc = "Assigning"
    /\ calculateMetric # Undefined
    /\ calculateMetric[1].name = "any"
    /\ ~improved
    /\ iterations >= 3
    /\ sortedStops # sequence

\* C13: the loop never makes more than MAX_ITERATIONS passes; it returns only
\* after a pass without an improving reversal or after pass MAX_ITERATIONS;
\* after a pass without an improving reversal it makes no further pass; and
\* every loop that is entered returns.
TwoOptTerminates ==
    /\ [](iterations <= MAX_ITERATIONS)
    /\ [][(pc = "LocalSearch" /\ pc' = "Assigning") =>
              (~improved \/ iterations = MAX_ITERATIONS)]_vars
    /\ [][(pc = "LocalSearch" /\ ~improved) => pc' = "Assigning"]_vars
    /\ [][(pc = "LocalSearch" /\ pc' = "LocalSearch") =>
              iterations' = iterations + 1]_vars
    /\ (pc = "LocalSearch") ~> (pc = "Assigning")

\* The cap ended a search whose last pass still improved.
TwoOptTerminatesWitness ==
    /\ pc = "Assigning"
    /\ calculateMetric # Undefined
    /\ iterations = MAX_ITERATIONS
    /\ improved

-----------------------------------------------------------------------------
(* The Promise.all dispatches. *)

\* C19: in whatever order the responses arrive, the estimate kept for a stop
\* is the response to that stop's own request and the sequence is the
\* distance-from-school order of those estimates; and the duration of each
\* return segment of the route just pushed is the response to that segment's
\* own request.
ResponsesPairedWithRequests ==
    /\ (pc = "Assigning" /\ awaiting = "") =>
          /\ Len(settled) = Len(stops)
          /\ \A m \in DOMAIN settled :
                travelEstimates[settled[m].request] = settled[m].duration
          /\ sortedStops = optimizeByDistanceFromSchool(stops, travelEstimates)
    /\ (pc \in {"PropagatingMorning", "Aggregating", "Done"} /\ settled # <<>>) =>
          LET route == routes[Len(routes)]
          IN  /\ route.returnSegments # Undefined
              /\ Len(route.returnSegments[1]) = Len(settled)
              /\ \A m \in DOMAIN settled :
                    route.returnSegments[1][settled[m].request].duration
                        = settled[m].duration

\* A return leg whose second request was answered first, with another duration
\* than the first, has been pushed.
ResponsesPairedWithRequestsWitness ==
    /\ pc = "Aggregating"
    /\ Len(settled) = 2
    /\ settled[1].request = 2
    /\ settled[1].duration # settled[2].duration
    /\ routes[1].returnSegments[1][1].duration = settled[2].duration

-----------------------------------------------------------------------------
(* The stages of a run. *)

\* The place of a stage in the list ValidatingInput, Sequencing, Assigning,
\* PropagatingMorning, PropagatingReturn, Aggregating, Done; Failed is last.
StageRank(stage) ==
    CASE stage = "ValidatingInput" -> 1
      [] stage = "Sequencing" -> 2
      [] stage = "LocalSearch" -> 2
      [] stage = "Assigning" -> 3
      [] stage = "PropagatingMorning" -> 4
      [] stage = "PropagatingReturn" -> 5
      [] stage = "Aggregating" -> 6
      [] stage = "Done" -> 7
      [] stage = "Failed" -> 8

\* C21 as stated: no step of a run leads to an earlier stage of the list (so
\* no morning propagation follows return propagation), and Done and Failed
\* are the only stages a run ends in.
StagesNeverGoBack ==
    [][/\ StageRank(pc') >= StageRank(pc)
       /\ pc \in {"Done", "Failed"} => pc' = pc]_vars

\* C21 as amended: the stages before the route loop and after it are passed
\* in the order of the list, and Done and Failed end the run; inside the route
\* loop the order holds for each bus, the return propagation of a bus being
\* followed by the morning propagation of the next bus with a stop.
StagesInOrderPerBus ==
    [][/\ \/ StageRank(pc') >= StageRank(pc)
          \/ /\ pc = "PropagatingReturn"
             /\ pc' = "PropagatingMorning"
             /\ busIndex' > busIndex
       /\ (pc \in {"PropagatingMorning", "PropagatingReturn"} /\ busIndex' = busIndex)
              => StageRank(pc') >= StageRank(pc)
       /\ (pc' = "PropagatingMorning" /\ pc # pc') => busIndex' > busIndex
       /\ pc' = "Sequencing" => pc \in {"ValidatingInput", "Sequencing"}
       /\ pc' = "Assigning" => pc \in {"Sequencing", "Assigning"}
       /\ pc' = "PropagatingMorning" =>
              pc \in {"Assigning", "PropagatingMorning", "PropagatingReturn"}
       /\ pc' = "PropagatingReturn" => pc \in {"PropagatingMorning", "PropagatingReturn"}
       /\ pc' = "Aggregating" =>
              pc \in {"Assigning", "PropagatingMorning", "PropagatingReturn"}
       /\ pc' = "Done" => pc = "Aggregating"
       /\ pc \in {"Done", "Failed"} => pc' = pc]_vars

\* The morning propagation of the second bus is under way after the return
\* propagation of the first.
StagesInOrderPerBusWitness ==
    /\ pc = "PropagatingMorning"
    /\ busIndex = 2
    /\ Len(routes) = 1
    /\ routes[1].returnSegments # Undefined

-----------------------------------------------------------------------------
(* The instants of the morning queries. *)

\* The running clock at the stop at position i of a route: the arrival at the
\* school less (segment duration + dwell) for every stop after i.
ClockAtStop(route, i) ==
    schoolArrivalTime
    - SumSeq([k \in 1..(Len(route.stops) - i) |->
                 route.segments[i + k].duration + StopDuration])

\* C22: in both implementations the morning query for the leg from a stop was
\* issued for the instant of the running clock at that stop.
MorningQueriesAtRunningClock ==
    \A r \in DOMAIN routes :
        \A i \in DOMAIN routes[r].stops :
            morningDepartures[routes[r].stops[i].address]
                = getDateWithTime(ClockAtStop(routes[r], i))

-----------------------------------------------------------------------------
(* The strategies that read distances, over a map that pins the distance of  *)
(* every query they issue, for three stops.                                  *)

\* Every table that gives each pair of `pairs` a value of `values`.
Tables(pairs, values) == [pairs -> values]

\* The ordered pairs of distinct places of `places`.
Trips(places) == {p \in places \X places : p[1] # p[2]}

\* options.customStartLocation: none, or a depot that is neither a stop nor
\* the school.
StartLocations == {Undefined, Some(-1)}

\* optimizeByDistanceMatrix(stops, school, options.customStartLocation) of
\* part_000, every distance among the stops and the start point pinned.
InitMappedMatrix ==
    /\ impl = "five"
    /\ \E o \in {m \in MorningOptions({Some("DISTANCE_MATRIX")}) : m.stopDuration = 0},
          start \in StartLocations :
          options = [o EXCEPT !.customStartLocation = start]
    /\ oracle = <<>>
    /\ roads \in Tables(Trips({StartPoint} \cup {stops[k].address : k \in DOMAIN stops}),
                        Distances)

\* optimizeByMinimizeTotalDistance(stops, school) of either engine, the
\* distance of every query pinned (stop to school, and each pair of stops from
\* the earlier stop of the input to the later), and every stop-to-school
\* duration.
InitMappedTotalDistance ==
    /\ impl \in Implementations
    /\ options \in {m \in MorningOptions({Some("MINIMIZE_TOTAL_DISTANCE")}) :
                        m.stopDuration = 0}
    /\ oracle \in Tables(Range(SchoolQueries(stops)), Durations)
    /\ roads \in Tables(Range(SchoolQueries(stops)) \cup Range(PairQueries(stops)),
                        Distances)

InitMapped ==
    /\ stops = StopsOfOneKid(3)
    /\ busCapacities = <<3>>
    /\ school \in {s \in Schools : s.departureTime = Undefined}
    /\ pc = "Sequencing"
    /\ Fresh
    /\ PageNotShown
    /\ \/ InitMappedMatrix
       \/ InitMappedTotalDistance

NextMapped ==
    \/ SequenceByDistanceMatrix
    \/ SequenceByMinimizeTotalDistance
    \/ TwoOptPass
    \/ TwoOptReturn

SpecMapped == InitMapped /\ [][NextMapped]_vars

-----------------------------------------------------------------------------
(* The minimize-total-distance strategy. *)

\* The distance the map gives from a stop to the school.
SchoolDistance(stop) == roads[<<stop.address, school.name>>]

\* The distance the map gives for a pair of stops, as the strategy asks for
\* it: from the earlier stop of the input to the later.
PairDistance(a, b) ==
    IF a.address < b.address THEN roads[<<a.address, b.address>>]
    ELSE roads[<<b.address, a.address>>]

\* dist(school, first) + the consecutive-pair distances + dist(last, school),
\* every term a distance of the map.
RoadDistance(seq) ==
    IF seq = <<>> THEN 0
    ELSE SchoolDistance(seq[1])
         + SumSeq([k \in 1..(Len(seq) - 1) |-> PairDistance(seq[k], seq[k + 1])])
         + SchoolDistance(seq[Len(seq)])

\* C23: in both implementations of the minimize-total-distance strategy the
\* seed is the stops sorted descending by their distance to the school, and
\* the cost the 2-opt search holds for its sequence is the sum of the
\* distances from the school to the first stop, between consecutive stops
\* and from the last stop to the school, each one a distance.
TotalDistanceOfDistances ==
    (pc = "LocalSearch" /\ strategyRun = <<"optimizeByMinimizeTotalDistance">>) =>
        /\ \A k \in 1..(Len(sequence) - 1) :
               SchoolDistance(sequence[k]) >= SchoolDistance(sequence[k + 1])
        /\ bestMetric = RoadDistance(bestSequence)

-----------------------------------------------------------------------------
(* The return leg. *)

\* The return segments of a route run forward from the school through its
\* stops: the first starts at the school, each later one where the one before
\* it ended, and each ends at a stop of the route.
ForwardFromSchool(route) ==
    LET segs == route.returnSegments[1]
    IN  /\ segs # <<>> => segs[1].from = school.name
        /\ \A k \in 2..Len(segs) : segs[k].from = segs[k - 1].to
        /\ \A k \in DOMAIN segs :
               segs[k].to \in {route.stops[i].address : i \in DOMAIN route.stops}

-----------------------------------------------------------------------------
(* The distance-matrix strategy. *)

\* The matrix the strategy fills from a map that pins every distance it asks
\* for.
MatrixOfMap ==
    [i \in 0..Len(stops) |-> [j \in 0..Len(stops) |->
        IF i = j THEN 0
        ELSE roads[<<MatrixPoint(stops, i), MatrixPoint(stops, j)>>]]]

\* The input stop that has the least entry of row k of the matrix, in the
\* column of its own index in the input, among those not among the first k
\* stops of `placed`; the earliest of them on a tie.
NearestUnvisitedInRow(placed, k) ==
    LET unvisited == {i \in DOMAIN stops : \A j \in 1..k : placed[j] # stops[i]}
        row == MatrixOfMap[k]
    IN  stops[CHOOSE i \in unvisited :
                  \A j \in unvisited :
                      row[i - 1] <= row[j - 1] /\ (j < i => row[j - 1] > row[i - 1])]

\* C25: in the distance-matrix strategy the stop appended when k stops are
\* placed is the unvisited stop u with the least matrix[k][index of u in the
\* input stops], the earliest unvisited one on a tie.
AppendsNearestInRow ==
    (pc = "Assigning" /\ strategyRun = <<"optimizeByDistanceMatrix">>) =>
        \A k \in 0..(Len(sortedStops) - 1) :
            sortedStops[k + 1] = NearestUnvisitedInRow(sortedStops, k)

-----------------------------------------------------------------------------
(* The order of the stops on a bus. *)

\* The position of a stop in the global sequence.
PlaceInSequence(stop) == CHOOSE k \in DOMAIN sortedStops : sortedStops[k] = stop

\* C26: the stops assigned to a bus stand in the order the global sequence
\* gives them, and the stops of every emitted route are those of its bus in
\* that same order.
BusKeepsSequenceOrder ==
    /\ \A b \in DOMAIN stopGroups :
           \A i, j \in DOMAIN stopGroups[b] :
               i < j => PlaceInSequence(stopGroups[b][i])
                            < PlaceInSequence(stopGroups[b][j])
    /\ \A r \in DOMAIN routes : routes[r].stops = stopGroups[routes[r].id]

\* A run has returned a route of two stops that the strategy had put in the
\* opposite order of the input.
BusKeepsSequenceOrderWitness ==
    /\ pc = "Done"
    /\ Len(result[1].routes) = 1
    /\ Len(result[1].routes[1].stops) = 2
    /\ result[1].routes[1].stops[1].address = 2
    /\ sortedStops[1].address = 2

\* The trips between the start point and a stop, in either direction.
StartTrips ==
    {p \in Trips({StartPoint} \cup {stops[k].address : k \in DOMAIN stops}) :
        p[1] = StartPoint \/ p[2] = StartPoint}

\* The matrix of a run on the same stops whose start point lies at the
\* distances `fromStart` of the stops, the distances between stops those of
\* the map.
MatrixWithStart(fromStart) ==
    LET map == fromStart @@ roads
    IN  [i \in 0..Len(stops) |-> [j \in 0..Len(stops) |->
            IF i = j THEN 0
            ELSE map[<<MatrixPoint(stops, i), MatrixPoint(stops, j)>>]]]

\* C27: the sequence the distance-matrix strategy returns is the one it
\* returns on the same stops and the same stop-to-stop distances from any
\* other start point, whatever the distances between that start point and
\* the stops.
SequenceIgnoresStartPoint ==
    (pc = "Assigning" /\ strategyRun = <<"optimizeByDistanceMatrix">>) =>
        \A fromStart \in Tables(StartTrips, Distances) :
            optimizeByDistanceMatrix(stops, MatrixWithStart(fromStart)) = sortedStops

\* The strategy has returned a sequence other than the input order, from a
\* custom start location that is nearest to the last stop of the input.
SequenceIgnoresStartPointWitness ==
    /\ pc = "Assigning"
    /\ strategyRun = <<"optimizeByDistanceMatrix">>
    /\ options.customStartLocation # Undefined
    /\ roads[<<StartPoint, 1>>] = 1
    /\ roads[<<StartPoint, 2>>] = 1
    /\ roads[<<StartPoint, 3>>] = 0
    /\ sortedStops # stops

-----------------------------------------------------------------------------
(* The morning segments of a route. *)

\* C28: the morning segments of every emitted route align with its stops:
\* there is one segment per stop, segment i starts at stop i and ends at stop
\* i + 1, the last one at the school.
SegmentsAlignWithStops ==
    \A r \in DOMAIN routes :
        LET route == routes[r]
        IN  /\ Len(route.segments) = Len(route.stops)
            /\ \A i \in DOMAIN route.stops :
                   /\ route.segments[i].from = route.stops[i].address
                   /\ route.segments[i].to =
                          IF i < Len(route.stops) THEN route.stops[i + 1].address
                          ELSE school.name

\* A run has returned a route of two stops and its two segments.
SegmentsAlignWithStopsWitness ==
    /\ pc = "Done"
    /\ \E r \in DOMAIN result[1].routes :
           /\ Len(result[1].routes[r].stops) = 2
           /\ result[1].routes[r].segments[1].to = result[1].routes[r].stops[2].address
           /\ result[1].routes[r].segments[2].to = school.name

-----------------------------------------------------------------------------
(* The page component and the script loader its requests go through.  A      *)
(* handler runs from one await to the next in one step; a request is a call  *)
(* of handleJsonSubmit or handleOptimize that reached an await.              *)

MaxRequests == 3

\* What the input area can hold: the sample data, valid data without stops,
\* and text that makes JSON.parse (or the reading of data.school) throw.
JsonInputs == {"sample", "noStops", "malformed"}

engineVars == <<inputVars, pc, error, result, sequenceVars, assignVars, legVars,
                fleetVars, oracleVars>>

\* Faulty variant, for comparison: a rejected promise is not reused.
CachedUnlessRejected(promise, states) ==
    promise # Null /\ states[promise[1]] # "rejected"

\* if (googleMapsPromise)
Cached(promise, states) == promise # Null

\* One call of loadGoogleMaps(): the promise of the module if there is one,
\* otherwise a new promise, kept in the module, and a script element appended.
loadGoogleMaps ==
    IF Cached(googleMapsPromise, promises)
    THEN /\ loadCalls' = Append(loadCalls,
                                [promise |-> googleMapsPromise[1],
                                 state |-> promises[googleMapsPromise[1]]])
         /\ UNCHANGED <<googleMapsPromise, promises, scripts>>
    ELSE LET created == Len(promises) + 1
         IN  /\ promises' = Append(promises, "pending")
             /\ googleMapsPromise' = Some(created)
             /\ scripts' = Append(scripts, "loading")
             /\ loadCalls' = Append(loadCalls,
                                    [promise |-> created, state |-> "pending"])

\* The promise the call of loadGoogleMaps of this step returned.
PromiseReturned == loadCalls'[Len(loadCalls')].promise

\* The script calls window.initMap, the resolve of the promise created last.
ScriptLoaded(k) ==
    /\ scripts[k] = "loading"
    /\ scripts' = [scripts EXCEPT ![k] = "loaded"]
    /\ promises' = [promises EXCEPT ![Len(promises)] =
                        IF @ = "pending" THEN "fulfilled" ELSE @]
    /\ UNCHANGED <<googleMapsPromise, loadCalls, pageVars, engineVars>>

\* script.onerror: the promise of this script is rejected.
ScriptError(k) ==
    /\ scripts[k] = "loading"
    /\ scripts' = [scripts EXCEPT ![k] = "failed"]
    /\ promises' = [promises EXCEPT ![k] = IF @ = "pending" THEN "rejected" ELSE @]
    /\ UNCHANGED <<googleMapsPromise, loadCalls, pageVars, engineVars>>

\* A request goes on to its next await, behind a new call of loadGoogleMaps.
Await(r, what) ==
    /\ loadGoogleMaps
    /\ requests' = [requests EXCEPT ![r] = [@ EXCEPT !.awaiting = what,
                                                     !.promise = PromiseReturned]]

\* catch and finally of either handler: setError(message), setIsLoading(false).
Caught(r, message) ==
    /\ requests' = [requests EXCEPT ![r] = [@ EXCEPT !.awaiting = "returned"]]
    /\ pageError' = message
    /\ isLoading' = FALSE
    /\ UNCHANGED <<mounted, jsonInput, hasData, optimizationResult, loaderVars,
                   engineVars>>

\* handleJsonSubmit up to its first await, geocodeAddress(data.school.address),
\* which calls loadGoogleMaps at once; or through catch and finally when the
\* text does not parse.
handleJsonSubmit(input) ==
    IF input = "malformed"
    THEN /\ isLoading' = FALSE
         /\ pageError' = "SyntaxError"
         /\ UNCHANGED <<requests, loaderVars>>
    ELSE /\ Len(requests) < MaxRequests
         /\ isLoading' = TRUE
         /\ pageError' = Null
         /\ loadGoogleMaps
         /\ requests' = Append(requests, [handler |-> "handleJsonSubmit",
                                          awaiting |-> "geocodeAddress",
                                          input |-> input,
                                          promise |-> PromiseReturned])

\* useEffect(() => { handleJsonSubmit(); }, [handleJsonSubmit]) on mount.
Mount ==
    /\ ~mounted
    /\ mounted' = TRUE
    /\ handleJsonSubmit(jsonInput)
    /\ UNCHANGED <<jsonInput, hasData, optimizationResult, engineVars>>

\* onChange of the input area: setJsonInput, a new handleJsonSubmit from
\* useCallback, and the effect that depends on it runs it.
EditJson(text) ==
    /\ mounted
    /\ text # jsonInput
    /\ jsonInput' = text
    /\ handleJsonSubmit(text)
    /\ UNCHANGED <<mounted, hasData, optimizationResult, engineVars>>

\* onClick of Load Data, disabled while isLoading.
ClickLoad ==
    /\ mounted
    /\ ~isLoading
    /\ handleJsonSubmit(jsonInput)
    /\ UNCHANGED <<mounted, jsonInput, hasData, optimizationResult, engineVars>>

\* geocodeAddress of the school resolves: setSchool, then
\* batchGeocodeAddresses, which calls loadGoogleMaps at once.
SchoolGeocoded(r) ==
    /\ requests[r].awaiting = "geocodeAddress"
    /\ promises[requests[r].promise] = "fulfilled"
    /\ Await(r, "batchGeocodeAddresses")
    /\ UNCHANGED <<mounted, jsonInput, isLoading, pageError, hasData,
                   optimizationResult, engineVars>>

\* batchGeocodeAddresses is past its await of the loader: geocodeAddress of
\* the stops' addresses, or, without stops, the empty list returned and
\* setStops([]), setBusCapacities, finally.
BatchStarted(r) ==
    /\ requests[r].awaiting = "batchGeocodeAddresses"
    /\ promises[requests[r].promise] = "fulfilled"
    /\ IF requests[r].input = "noStops"
       THEN /\ requests' = [requests EXCEPT ![r] = [@ EXCEPT !.awaiting = "returned"]]
            /\ hasData' = FALSE
            /\ isLoading' = FALSE
            /\ UNCHANGED <<pageError, loaderVars>>
       ELSE /\ Await(r, "geocodeStops")
            /\ UNCHANGED <<isLoading, pageError, hasData>>
    /\ UNCHANGED <<mounted, jsonInput, optimizationResult, engineVars>>

\* The stops are geocoded: setStops, setBusCapacities, finally.
StopsGeocoded(r) ==
    /\ requests[r].awaiting = "geocodeStops"
    /\ promises[requests[r].promise] = "fulfilled"
    /\ requests' = [requests EXCEPT ![r] = [@ EXCEPT !.awaiting = "returned"]]
    /\ hasData' = TRUE
    /\ isLoading' = FALSE
    /\ UNCHANGED <<mounted, jsonInput, pageError, optimizationResult, loaderVars,
                   engineVars>>

\* An await of handleJsonSubmit throws: the loader's promise is rejected, or
\* the geocoder fails once the loader is there.
LoadFailed(r) ==
    /\ requests[r].handler = "handleJsonSubmit"
    /\ \/ /\ requests[r].awaiting # "returned"
          /\ promises[requests[r].promise] = "rejected"
          /\ Caught(r, "Failed to load Google Maps API")
       \/ /\ requests[r].awaiting \in {"geocodeAddress", "geocodeStops"}
          /\ promises[requests[r].promise] = "fulfilled"
          /\ Caught(r, "Failed to geocode address")

\* onClick of Optimize Routes, disabled while isLoading or without data:
\* handleOptimize up to its await of optimizeRoutes, whose first oracle query
\* calls loadGoogleMaps at once.
handleOptimize ==
    /\ mounted
    /\ ~isLoading
    /\ hasData
    /\ Len(requests) < MaxRequests
    /\ isLoading' = TRUE
    /\ pageError' = Null
    /\ loadGoogleMaps
    /\ requests' = Append(requests, [handler |-> "handleOptimize",
                                     awaiting |-> "optimizeRoutes",
                                     input |-> jsonInput,
                                     promise |-> PromiseReturned])
    /\ UNCHANGED <<mounted, jsonInput, hasData, optimizationResult, engineVars>>

\* optimizeRoutes resolves: setOptimizationResult, finally.
Optimized(r) ==
    /\ requests[r].awaiting = "optimizeRoutes"
    /\ promises[requests[r].promise] = "fulfilled"
    /\ requests' = [requests EXCEPT ![r] = [@ EXCEPT !.awaiting = "returned"]]
    /\ optimizationResult' = "result"
    /\ isLoading' = FALSE
    /\ UNCHANGED <<mounted, jsonInput, pageError, hasData, loaderVars, engineVars>>

\* optimizeRoutes rejects: the run throws.  The loader's promise is fulfilled
\* by then, the data on the page having come through it.
OptimizeFailed(r) ==
    /\ requests[r].awaiting = "optimizeRoutes"
    /\ promises[requests[r].promise] = "fulfilled"
    /\ Caught(r, "Error during route optimization")

InitPage ==
    /\ impl = "three"
    /\ stops = <<>>
    /\ busCapacities = <<>>
    /\ school \in Schools
    /\ options \in {o \in OptionChoices : ~o.includeReturn /\ o.stopDuration = 1}
    /\ oracle = <<>>
    /\ roads = <<>>
    /\ pc = "ValidatingInput"
    /\ Fresh
    /\ PageNotShown

NextPage ==
    \/ Mount
    \/ \E text \in JsonInputs : EditJson(text)
    \/ ClickLoad
    \/ handleOptimize
    \/ \E k \in DOMAIN scripts : ScriptLoaded(k) \/ ScriptError(k)
    \/ \E r \in DOMAIN requests :
          \/ SchoolGeocoded(r)
          \/ BatchStarted(r)
          \/ StopsGeocoded(r)
          \/ LoadFailed(r)
          \/ Optimized(r)
          \/ OptimizeFailed(r)

SpecPage == InitPage /\ [][NextPage]_vars

-----------------------------------------------------------------------------
(* The loading flag of the page. *)

\* C29: isLoading is true whenever a load or an optimize request is still in
\* flight.
LoadingWhileInFlight ==
    (\E r \in DOMAIN requests : requests[r].awaiting # "returned") => isLoading

-----------------------------------------------------------------------------
(* The script loader. *)

\* C30: over any sequence of calls of loadGoogleMaps at most one script
\* element is appended to the document and every call returns the same
\* promise, also once the load has failed: a later call returns the same
\* rejected promise and appends nothing.
OneScriptOnePromise ==
    /\ Len(scripts) <= 1
    /\ \A i, j \in DOMAIN loadCalls : loadCalls[i].promise = loadCalls[j].promise
    /\ \A i \in DOMAIN loadCalls :
           loadCalls[i].state = "rejected" => promises[loadCalls[i].promise] = "rejected"

\* The script has failed to load, and of three calls of loadGoogleMaps the
\* first came before the failure and the last after it.
OneScriptOnePromiseWitness ==
    /\ Len(loadCalls) >= 3
    /\ loadCalls[1].state = "pending"
    /\ loadCalls[Len(loadCalls)].state = "rejected"
    /\ scripts = <<"failed">>

=============================================================================
